---------------------------- MODULE Spec2Model ----------------------------
(***************************************************************************)
(* A model of EmbeddableWebServer.h: the incremental request parser        *)
(* (requestParse and the pool strings it writes), the per-connection unit  *)
(* (connectionHandlerThread) and the accept loop with its shutdown         *)
(* protocol (serverInit, serverStop, acceptConnectionsUntilStoppedInternal)*)
(*                                                                         *)
(* Bytes are their ASCII codes.  C arrays are 0-based in the source and    *)
(* are kept as sequences here, so a source index k is element k + 1.       *)
(***************************************************************************)
EXTENDS Integers, Sequences, FiniteSets, TLC

(***************************************************************************)
(* Bytes the parser tests for.                                             *)
(***************************************************************************)
NUL == 0
LF == 10
CR == 13
SP == 32
PERCENT == 37
AMPERSAND == 38
PLUS == 43
MINUS == 45
COLON == 58

\* "Content-Length", the header name requestParse looks up
ContentLengthName ==
    <<67, 111, 110, 116, 101, 110, 116, 45, 76, 101, 110, 103, 116, 104>>

(***************************************************************************)
(* Sizes.  The source's capacities are far beyond what can be enumerated,  *)
(* so the model keeps their names and scales their values; the width of    *)
(* size_t is scaled the same way (arithmetic on it wraps modulo 2^w).      *)
(***************************************************************************)
REQUEST_MAX_HEADERS == 1
REQUEST_HEADERS_MAX_MEMORY == 22
REQUEST_MAX_BODY_LENGTH == 2
MethodCapacity == 3
PathCapacity == 6
VersionCapacity == 3
PathDecodedCapacity == 6
SizeBits == 16

\* sizeof('\0') in C: a character constant has type int
SizeofCharConstant == 4
\* the representation of a NULL char* (pool offsets are >= 0)
NullPtr == -1

SizeModulus == 2 ^ SizeBits

Min(a, b) == IF a < b THEN a ELSE b

(***************************************************************************)
(* C library pieces the parser calls.                                      *)
(***************************************************************************)
IsSpace(c) == c \in {SP, 9, 10, 11, 12, 13}
IsDigit(c) == c \in 48..57

ToLower(c) == IF c \in 65..90 THEN c + 32 ELSE c

\* strcasecmp(a, b) == 0 on two C strings given as byte sequences
StrCaseEq(a, b) ==
    /\ Len(a) = Len(b)
    /\ \A k \in 1..Len(a) : ToLower(a[k]) = ToLower(b[k])

HexVal(c) ==
    IF c \in 48..57 THEN c - 48
    ELSE IF c \in 97..102 THEN c - 87
    ELSE IF c \in 65..70 THEN c - 55
    ELSE -1

IsHex(c) == HexVal(c) >= 0

\* sscanf(hexString, "%02x", &v) on the two-byte string {first, second}:
\* leading white space is skipped, an optional sign uses one of the two
\* characters of field width, then as many hex digits as the width allows.
\* items = 1 when at least one digit was converted.
Scan2Hex(first, second) ==
    LET s == IF IsSpace(first) THEN (IF IsSpace(second) THEN <<>> ELSE <<second>>)
             ELSE <<first, second>>
        signed == Len(s) > 0 /\ s[1] \in {PLUS, MINUS}
        neg == signed /\ s[1] = MINUS
        d == IF signed THEN Tail(s) ELSE s
        d1 == IF Len(d) >= 1 /\ IsHex(d[1]) THEN HexVal(d[1]) ELSE -1
        d2 == IF d1 >= 0 /\ Len(d) >= 2 /\ IsHex(d[2]) THEN HexVal(d[2]) ELSE -1
        v == IF d2 >= 0 THEN 16 * d1 + d2 ELSE d1
    IN  IF d1 < 0 THEN [items |-> 0, value |-> 0]
        ELSE [items |-> 1, value |-> IF neg THEN 0 - v ELSE v]

\* the digits at the front of s, as a number
RECURSIVE DigitsValue(_, _)
DigitsValue(s, acc) ==
    IF s = <<>> \/ ~IsDigit(s[1]) THEN acc
    ELSE DigitsValue(Tail(s), 10 * acc + (s[1] - 48))

RECURSIVE SkipSpace(_)
SkipSpace(s) == IF s # <<>> /\ IsSpace(s[1]) THEN SkipSpace(Tail(s)) ELSE s

\* sscanf(s, "%ld", &v): white space, an optional sign, decimal digits
ScanLong(s) ==
    LET t == SkipSpace(s)
        signed == t # <<>> /\ t[1] \in {PLUS, MINUS}
        d == IF signed THEN Tail(t) ELSE t
    IN  IF d = <<>> \/ ~IsDigit(d[1]) THEN [items |-> 0, value |-> 0]
        ELSE [items |-> 1,
              value |-> IF signed /\ t[1] = MINUS THEN 0 - DigitsValue(d, 0)
                        ELSE DigitsValue(d, 0)]

(***************************************************************************)
(* URLDecode                                                               *)
(***************************************************************************)
\* (char) v kept as a byte
ToByte(v) == v % 256

RECURSIVE URLDecodeLoop(_, _, _, _, _, _)
URLDecodeLoop(encoded, decoded, decodedCapacity, type, state, firstDigit) ==
    IF Len(decoded) >= decodedCapacity - 1 THEN decoded
    ELSE IF encoded = <<>> \/ encoded[1] = NUL THEN decoded
    ELSE IF encoded[1] = AMPERSAND /\ type = "Parameter" THEN decoded
    ELSE LET c == encoded[1]
             rest == Tail(encoded)
         IN  CASE state = "Normal" ->
                    IF c = PERCENT
                    THEN URLDecodeLoop(rest, decoded, decodedCapacity, type,
                                       "PercentFirstDigit", firstDigit)
                    ELSE IF c = PLUS
                    THEN URLDecodeLoop(rest, Append(decoded, SP), decodedCapacity,
                                       type, "Normal", firstDigit)
                    ELSE URLDecodeLoop(rest, Append(decoded, c), decodedCapacity,
                                       type, "Normal", firstDigit)
               [] state = "PercentFirstDigit" ->
                    URLDecodeLoop(rest, decoded, decodedCapacity, type,
                                  "PercentSecondDigit", c)
               [] OTHER ->
                    LET scanned == Scan2Hex(firstDigit, c)
                    IN  IF scanned.items = 1
                        THEN URLDecodeLoop(rest, Append(decoded, ToByte(scanned.value)),
                                           decodedCapacity, type, "Normal", firstDigit)
                        ELSE URLDecodeLoop(rest, decoded, decodedCapacity, type,
                                           "Normal", firstDigit)

\* a URLDecode that does not look at its type
URLDecodeIgnoringType(encoded, decodedCapacity, type) ==
    URLDecodeLoop(encoded, <<>>, decodedCapacity, "WholeURL", "Normal", NUL)

\* the bytes URLDecode leaves in decoded[0 .. deci-1]; decoded[deci] is NUL
URLDecode(encoded, decodedCapacity, type) ==
    URLDecodeLoop(encoded, <<>>, decodedCapacity, type, "Normal", NUL)

(***************************************************************************)
(* struct Request, zero-initialised by connectionAlloc's calloc.           *)
(* method, path and version hold the bytes stored so far (the rest of each *)
(* array is zero, so each is a C string of methodLength, ... bytes).       *)
(* fault records that the process hit a write or read through NULL or past *)
(* an allocation; nothing runs after it.                                   *)
(***************************************************************************)
ZeroPoolString == [contents |-> NullPtr, length |-> 0]

ZeroHeader == [name |-> ZeroPoolString, value |-> ZeroPoolString]

ZeroWarnings ==
    [headersStringPoolExhausted |-> FALSE, headersTooManyDropped |-> FALSE,
     methodTruncated |-> FALSE, versionTruncated |-> FALSE,
     pathTruncated |-> FALSE, bodyTruncated |-> FALSE]

ZeroRequest ==
    [state |-> "Method",
     method |-> <<>>, path |-> <<>>, version |-> <<>>, pathDecoded |-> <<>>,
     body |-> [allocated |-> FALSE, contents |-> <<>>, length |-> 0, capacity |-> 0],
     headers |-> [h \in 0..(REQUEST_MAX_HEADERS - 1) |-> ZeroHeader],
     headersCount |-> 0,
     headersStringPool |-> [k \in 1..REQUEST_HEADERS_MAX_MEMORY |-> NUL],
     headersStringPoolOffset |-> 0,
     warnings |-> ZeroWarnings,
     fault |-> "none"]

\* the C string that starts at pool offset p
RECURSIVE CStr(_, _)
CStr(pool, p) ==
    IF p >= Len(pool) \/ pool[p + 1] = NUL THEN <<>>
    ELSE <<pool[p + 1]>> \o CStr(pool, p + 1)

HeaderNameStr(r, h) == CStr(r.headersStringPool, r.headers[h].name.contents)
HeaderValueStr(r, h) == CStr(r.headersStringPool, r.headers[h].value.contents)

\* poolStringStartNewString on field f ("name" or "value") of
\* request->headers[request->headersCount]
poolStringStartNewString(r, f) ==
    LET h == r.headersCount
    IN  IF r.headersStringPoolOffset = 0
        THEN [r EXCEPT !.headers[h][f] = [contents |-> 0, length |-> 0]]
        ELSE IF r.headersStringPoolOffset >= REQUEST_HEADERS_MAX_MEMORY - 1
        THEN [r EXCEPT !.headers[h][f] = [contents |-> NullPtr, length |-> 0],
                       !.warnings.headersStringPoolExhausted = TRUE]
        ELSE [r EXCEPT !.headersStringPoolOffset = @ + 1,
                       !.headers[h][f] =
                           [contents |-> r.headersStringPoolOffset + 1, length |-> 0]]

\* the offset from which poolStringAppendChar refuses to store
PoolAppendLimit == REQUEST_HEADERS_MAX_MEMORY - 1 - SizeofCharConstant

\* poolStringAppendChar on the same field
poolStringAppendChar(r, f, c) ==
    LET h == r.headersCount
        ps == r.headers[h][f]
        at == ps.contents + ps.length
    IN  IF r.headersStringPoolOffset >= PoolAppendLimit
        THEN [r EXCEPT !.warnings.headersStringPoolExhausted = TRUE]
        ELSE IF ps.contents = NullPtr
        THEN [r EXCEPT !.fault = "write through NULL pool string"]
        ELSE IF at >= REQUEST_HEADERS_MAX_MEMORY
        THEN [r EXCEPT !.fault = "write past headersStringPool"]
        ELSE [r EXCEPT !.headersStringPool[at + 1] = c,
                       !.headers[h][f].length = @ + 1,
                       !.headersStringPoolOffset = @ + 1]

\* headerInRequest: the index of the first header whose name matches, -1 for
\* NULL; strcasecmp on a NULL name is a read through NULL.
RECURSIVE HeaderScan(_, _, _)
HeaderScan(r, headerName, i) ==
    IF i >= r.headersCount THEN [fault |-> FALSE, index |-> -1]
    ELSE IF r.headers[i].name.contents = NullPtr THEN [fault |-> TRUE, index |-> -1]
    ELSE IF StrCaseEq(HeaderNameStr(r, i), headerName) THEN [fault |-> FALSE, index |-> i]
    ELSE HeaderScan(r, headerName, i + 1)

headerInRequest(headerName, r) == HeaderScan(r, headerName, 0)

(***************************************************************************)
(* requestParse                                                            *)
(***************************************************************************)
\* case RequestParseStateCRLFCR, c == '\n': the end of the header block
HeaderBlockEnd(r) ==
    LET found == headerInRequest(ContentLengthName, r)
        done == [r EXCEPT !.state = "Done"]
    IN  IF found.fault THEN [done EXCEPT !.fault = "strcasecmp on a NULL header name"]
        ELSE IF found.index < 0 THEN done
        ELSE LET scanned == ScanLong(HeaderValueStr(r, found.index))
                 clampedHigh == IF scanned.value > REQUEST_MAX_BODY_LENGTH
                                THEN REQUEST_MAX_BODY_LENGTH ELSE scanned.value
                 contentLength == IF clampedHigh < 0 THEN 0 ELSE clampedHigh
             IN  IF scanned.items # 1 THEN done
                 ELSE [done EXCEPT
                         !.body = [allocated |-> contentLength > 0,
                                   contents |-> IF contentLength > 0
                                                THEN [k \in 1..(contentLength + 1) |-> NUL]
                                                ELSE <<>>,
                                   length |-> 0,
                                   capacity |-> contentLength],
                         !.state = "Body"]

\* case RequestParseStateBody
BodyByte(r, c) ==
    IF ~r.body.allocated THEN [r EXCEPT !.fault = "write through NULL body"]
    ELSE IF r.body.length >= Len(r.body.contents)
    THEN [r EXCEPT !.fault = "write past the body allocation"]
    ELSE LET stored == [r EXCEPT !.body.contents[r.body.length + 1] = c,
                                 !.body.length = @ + 1]
         IN  IF stored.body.length = stored.body.capacity
             THEN [stored EXCEPT !.state = "Done"]
             ELSE stored

\* the Done case without its test of body.contents
DoneByteAlways(r, c) == [r EXCEPT !.warnings.bodyTruncated = TRUE]

\* a Done case that takes the byte as the start of the next request
DoneByteRestarts(r, c) == [r EXCEPT !.state = "Method", !.method = <<c>>]

\* case RequestParseStateDone
DoneByte(r, c) ==
    IF r.body.allocated THEN [r EXCEPT !.warnings.bodyTruncated = TRUE] ELSE r

\* case RequestParseStateHeaderName
HeaderNameByte(r, c) ==
    IF c = COLON THEN [r EXCEPT !.state = "HeaderValue"]
    ELSE IF c = CR THEN [r EXCEPT !.state = "CR"]
    ELSE IF r.headersCount < REQUEST_MAX_HEADERS
    THEN LET started == IF r.headers[r.headersCount].name.contents = NullPtr
                        THEN poolStringStartNewString(r, "name") ELSE r
         IN  poolStringAppendChar(started, "name", c)
    ELSE [r EXCEPT !.warnings.headersTooManyDropped = TRUE]

\* a test that skips a space only after the value has begun
SkipsSpaceInsideValue(r, c) ==
    /\ c = SP
    /\ r.headersCount < REQUEST_MAX_HEADERS
    /\ r.headers[r.headersCount].value.length > 0

\* c == ' ' && request->headersCount < REQUEST_MAX_HEADERS
\*          && request->headers[request->headersCount].value.length == 0
SkipsSpace(r, c) ==
    /\ c = SP
    /\ r.headersCount < REQUEST_MAX_HEADERS
    /\ r.headers[r.headersCount].value.length = 0

\* case RequestParseStateHeaderValue
HeaderValueByte(r, c) ==
    IF SkipsSpace(r, c)
    THEN r
    ELSE IF c = CR
    THEN IF r.headersCount < REQUEST_MAX_HEADERS
            /\ r.headers[r.headersCount].value.length > 0
         THEN [r EXCEPT !.headersCount = @ + 1, !.state = "CR"]
         ELSE [r EXCEPT !.state = "CR"]
    ELSE IF r.headersCount < REQUEST_MAX_HEADERS
    THEN LET started == IF r.headers[r.headersCount].value.contents = NullPtr
                        THEN poolStringStartNewString(r, "value") ELSE r
         IN  poolStringAppendChar(started, "value", c)
    ELSE r

\* a test that lets a field fill its whole array, terminator included
FieldHasRoomToCapacity(length, capacity) == length < capacity

\* request->methodLength < sizeof(request->method) - 1, and the same test
\* for path and version
FieldHasRoom(length, capacity) == length < capacity - 1

\* One pass of the switch on byte c.  replay is the i-- of the CRLF case.
ParseByte(r, c) ==
    LET keep(q) == [req |-> q, replay |-> FALSE]
    IN  CASE r.state = "Method" ->
               keep(IF c = SP THEN [r EXCEPT !.state = "Path"]
                    ELSE IF FieldHasRoom(Len(r.method), MethodCapacity)
                    THEN [r EXCEPT !.method = Append(@, c)]
                    ELSE [r EXCEPT !.warnings.methodTruncated = TRUE])
          [] r.state = "Path" ->
               keep(IF c = SP
                    THEN [r EXCEPT !.pathDecoded =
                                       URLDecode(r.path, PathDecodedCapacity, "WholeURL"),
                                   !.state = "Version"]
                    ELSE IF FieldHasRoom(Len(r.path), PathCapacity)
                    THEN [r EXCEPT !.path = Append(@, c)]
                    ELSE [r EXCEPT !.warnings.pathTruncated = TRUE])
          [] r.state = "Version" ->
               keep(IF c = CR THEN [r EXCEPT !.state = "CR"]
                    ELSE IF FieldHasRoom(Len(r.version), VersionCapacity)
                    THEN [r EXCEPT !.version = Append(@, c)]
                    ELSE [r EXCEPT !.warnings.versionTruncated = TRUE])
          [] r.state = "HeaderName" -> keep(HeaderNameByte(r, c))
          [] r.state = "HeaderValue" -> keep(HeaderValueByte(r, c))
          [] r.state = "CR" ->
               keep(IF c = LF THEN [r EXCEPT !.state = "CRLF"]
                    ELSE [r EXCEPT !.state = "HeaderName"])
          [] r.state = "CRLF" ->
               IF c = CR THEN keep([r EXCEPT !.state = "CRLFCR"])
               ELSE [req |-> [r EXCEPT !.state = "HeaderName"], replay |-> TRUE]
          [] r.state = "CRLFCR" ->
               keep(IF c = LF THEN HeaderBlockEnd(r)
                    ELSE [r EXCEPT !.state = "HeaderName"])
          [] r.state = "Body" -> keep(BodyByte(r, c))
          [] OTHER -> keep(DoneByte(r, c))

\* an i-- that stops at 0 instead of wrapping
ReplayIndexStuck(i) == IF i = 0 THEN 0 ELSE i - 1

\* i-- on a size_t
ReplayIndex(i) == (i - 1) % SizeModulus

\* the for loop over requestFragment, from index i
RECURSIVE ParseLoop(_, _, _)
ParseLoop(r, requestFragment, i) ==
    IF ~(i < Len(requestFragment)) \/ r.fault # "none" THEN r
    ELSE LET step == ParseByte(r, requestFragment[i + 1])
             at == IF step.replay THEN ReplayIndex(i) ELSE i
         IN  ParseLoop(step.req, requestFragment, (at + 1) % SizeModulus)

requestParse(r, requestFragment) == ParseLoop(r, requestFragment, 0)

(***************************************************************************)
(* The byte streams a client sends: a request line, up to MaxHeaderLines   *)
(* header lines, the blank line, and up to MaxTail bytes after it.  The    *)
(* header lines include malformed ones (no colon, empty name, empty value, *)
(* a lone CR, CR LF CR followed by something else).                        *)
(***************************************************************************)
MaxHeaderLines == 2
MaxTail == 3
\* requestParse is called on 1..MaxChunk bytes, or on all that is left
MaxChunk == 3

CRLF == <<CR, LF>>

\* "G / H" CR LF
PlainRequestLine == <<71, SP, 47, SP, 72>> \o CRLF

RequestLines ==
    { PlainRequestLine,
      \* "GET /%41+b%zc HTTP" CR LF: every field longer than its capacity
      <<71, 69, 84, SP, 47, PERCENT, 52, 49, PLUS, 98, PERCENT, 122, 99, SP,
        72, 84, 84, 80>> \o CRLF,
      \* all three fields empty
      <<SP, SP>> \o CRLF }

\* header lines that are combined freely
HeaderLines ==
    { ContentLengthName \o <<COLON, 49>> \o CRLF,                 \* Content-Length:1
      <<99, 111, 110, 116, 101, 110, 116, 45, 108, 101, 110, 103, 116, 104,
        COLON, SP, 50>> \o CRLF,                                   \* content-length: 2
      ContentLengthName \o <<COLON, 48>> \o CRLF,                 \* Content-Length:0
      <<97, COLON, 98>> \o CRLF,                                   \* a:b
      <<97>> \o CRLF,                                              \* a
      <<COLON, 118>> \o CRLF,                                      \* :v
      <<97, COLON, SP>> \o CRLF,                                   \* a: (empty value)
      <<97, COLON, 98, CR>> }                                      \* a:b and a lone CR

\* header lines that are sent as the only header of a request
LoneHeaderLines ==
    { ContentLengthName \o <<COLON, 49, 50>> \o CRLF,             \* Content-Length:12
      ContentLengthName \o <<COLON, MINUS, 49>> \o CRLF,          \* Content-Length:-1
      ContentLengthName \o <<COLON, 120>> \o CRLF,                \* Content-Length:x
      <<97, COLON, SP, SP, 98>> \o CRLF,                           \* a:  b
      <<97, COLON, SP, SP, SP, 98, SP, 99>> \o CRLF,               \* a:   b c
      <<97, COLON, 98>> \o CRLF \o <<CR>> }                        \* a:b CR LF CR

\* n bytes c
Repeat(c, n) == [k \in 1..n |-> c]

\* header lines with more bytes than headersStringPool takes, sent as the
\* only header: a long name, a long value, a long value with no name
LongHeaderLines ==
    { Repeat(110, PoolAppendLimit + 2) \o <<COLON, 118>> \o CRLF,
      <<97, COLON>> \o Repeat(118, PoolAppendLimit + 1) \o CRLF,
      <<COLON>> \o Repeat(118, PoolAppendLimit + 1) \o CRLF }

\* request lines whose fields have every length from empty to two bytes more
\* than is stored; the bytes of a field are all different
Field(first, n) == [k \in 1..n |-> first + k - 1]

FieldRequestLines ==
    { Field(65, m) \o <<SP>> \o Field(97, p) \o <<SP>> \o Field(48, v) \o CRLF :
          m \in 0..(MethodCapacity + 1),
          p \in 0..(PathCapacity + 1),
          v \in 0..(VersionCapacity + 1) }

RECURSIVE HeaderSections(_)
HeaderSections(n) ==
    IF n = 0 THEN {<<>>}
    ELSE LET shorter == HeaderSections(n - 1)
         IN  shorter \cup {sec \o line : sec \in shorter, line \in HeaderLines}

\* 120 is 'x'
Tails == {[k \in 1..n |-> 120] : n \in 0..MaxTail}

Streams ==
    {line \o CRLF \o tail :
         line \in RequestLines \cup FieldRequestLines, tail \in {<<>>, <<120>>}}
    \cup {PlainRequestLine \o sec \o CRLF \o tail :
              sec \in HeaderSections(MaxHeaderLines) \cup LoneHeaderLines
                          \cup LongHeaderLines,
              tail \in Tails}

(***************************************************************************)
(* State.  stream is what the client sends on the connection, pos how many *)
(* of its bytes have been handed to requestParse, request the connection's *)
(* struct Request.  boundaryReplay remembers that some call began on the   *)
(* byte that the CRLF case replays.  conn is the rest of the connection's   *)
(* execution unit: where connectionHandlerThread stands, its locals, the   *)
(* Response it was given, and a record of what it did to the socket, the   *)
(* file and the heap.                                                      *)
(***************************************************************************)
VARIABLES stream, pos, request, boundaryReplay, conn,
          server, locks, acceptThread, stopThreads, units, kernel, counters,
          call

connVars == <<stream, pos, request, boundaryReplay, conn>>
serverVars == <<server, locks, acceptThread, stopThreads, units, kernel, counters>>
vars == <<connVars, serverVars, call>>

Prefix(n) == SubSeq(stream, 1, n)

\* struct Response as sendResponse and sendResponseBody read it; isNull is
\* the handler's NULL, statusLength and contentTypeLength are strlen of
\* response->status and response->contentType
NoResponse ==
    [isNull |-> TRUE, bodyLength |-> 0, hasFilename |-> FALSE,
     code |-> 0, statusLength |-> 0, contentTypeLength |-> 0]

\* a connection unit that has not run yet
ConnStart ==
    [pc |-> "recv",
     foundRequest |-> FALSE,
     recvFailed |-> FALSE,
     response |-> NoResponse,
     errorResponse |-> FALSE,
     sending |-> "none",
     result |-> 0,
     fileOpen |-> FALSE,
     chunksLeft |-> 0,
     errorBody |-> NoResponse,
     bytesSent |-> 0,
     errorBytesSent |-> 0,
     sent |-> <<>>,
     readFailures |-> 0,
     failedAt |-> -1,
     handlerCalls |-> 0,
     stateAtHandler |-> "none",
     sendResponseCalls |-> 0,
     responseFrees |-> 0,
     fileCloses |-> 0,
     socketCloses |-> 0,
     connectionFrees |-> 0]

(***************************************************************************)
(* The server: struct Server, its three mutexes, the thread that runs      *)
(* acceptConnectionsUntilStopped, the threads that call serverStop, the    *)
(* connection threads, and the descriptors the kernel has open.            *)
(***************************************************************************)
MaxConnections == 2
MaxStopCalls == 2
ListenerFd == 3

Stoppers == {"A", "B"}
Connections == 1..MaxConnections

NoThread == <<"none", 0>>
AcceptId == <<"accept", 0>>
StopId(s) == <<"stop", s>>
UnitId(i) == <<"unit", i>>

\* a struct Server as calloc or = {0} leaves it
ZeroServer ==
    [initialized |-> FALSE,
     shouldRun |-> FALSE,
     stopped |-> FALSE,
     listenerfd |-> 0,
     activeConnectionCount |-> 0]

FreeLocks ==
    [globalMutex |-> NoThread,
     stoppedMutex |-> NoThread,
     connectionFinishedLock |-> NoThread]

AcceptStart ==
    [pc |-> "idle", errno |-> "none", result |-> 0, nextConnection |-> 1]

StopStart ==
    [pc |-> "idle", calls |-> 0, returns |-> 0, onInitialized |-> FALSE,
     afterStopped |-> FALSE, closes |-> 0, waits |-> 0]

UnitStart == [pc |-> "unused", increments |-> 0, decrements |-> 0, counted |-> FALSE]

\* the global struct Counters, zeroed: of its fields, activeConnections
ZeroCounters == [activeConnections |-> 0]

\* descriptor 0 is the process's standard input
KernelStart == [open |-> {0}, listenerCloses |-> 0, closesOfClosed |-> 0]

\* call is one call of a function that is checked by itself: its name, its
\* argument, and its result once it has returned
NoCall == [fn |-> "none", arg |-> <<>>, pc |-> "returned", result |-> <<>>]

ServerStart ==
    /\ server = ZeroServer
    /\ locks = FreeLocks
    /\ acceptThread = AcceptStart
    /\ stopThreads = [s \in Stoppers |-> StopStart]
    /\ units = [i \in Connections |-> UnitStart]
    /\ kernel = KernelStart
    /\ counters = ZeroCounters

ParserInit ==
    /\ stream \in Streams
    /\ pos = 0
    /\ request = ZeroRequest
    /\ boundaryReplay = FALSE
    /\ conn = ConnStart
    /\ ServerStart
    /\ call = NoCall

\* one call requestParse(&request, fragment, n) on the next n bytes
Feed(n) ==
    /\ request.fault = "none"
    /\ n >= 1
    /\ pos + n <= Len(stream)
    /\ request' = requestParse(request, SubSeq(stream, pos + 1, pos + n))
    /\ pos' = pos + n
    /\ boundaryReplay' = (boundaryReplay
                          \/ (request.state = "CRLF" /\ stream[pos + 1] # CR))
    /\ UNCHANGED <<stream, conn, serverVars, call>>

ChunkSizes == (1..MaxChunk) \cup {Len(stream) - pos}

ParseNext == \E n \in ChunkSizes : Feed(n)

SpecParse == ParserInit /\ [][ParseNext]_vars

(***************************************************************************)
(* C1: requestParse is chunk-boundary independent: however the bytes fed   *)
(* so far were split into calls, the Request equals the one a single call  *)
(* on all of them leaves in a zero-initialised Request.                    *)
(***************************************************************************)
C1_ChunkBoundaryIndependence == request = requestParse(ZeroRequest, Prefix(pos))

\* a call began exactly on the byte the CRLF case replays, after earlier calls
C1_Witness == boundaryReplay /\ pos > 1 /\ request.state = "Done"

(***************************************************************************)
(* connectionHandlerThread on one connection.  The handler                 *)
(* createResponseForRequest is the embedding program's: it may return NULL *)
(* or any Response.  recv may return <= 0 at any time; each send may       *)
(* transfer everything, a part, or fail.                                   *)
(***************************************************************************)
MaxConnHeaderLines == 1
MaxFileChunks == 2
MaxBodyLength == 10
MaxStatusLength == 1100
MaxContentTypeLength == 1000
MaxFileHeaderLength == 2
SEND_RECV_BUFFER_SIZE == 16384
RESPONSE_HEADER_SIZE == 1024

ConnStreams ==
    {line \o CRLF \o tail : line \in RequestLines, tail \in {<<>>, <<120>>}}
    \cup {PlainRequestLine \o sec \o CRLF \o tail :
              sec \in HeaderSections(MaxConnHeaderLines) \cup LoneHeaderLines,
              tail \in Tails}

\* the Responses a handler returns: a body of 0, 1 or MaxBodyLength bytes,
\* with or without a file name, a status and a content type that are short
\* or long (neither is NULL)
StatusLengths == {Len("OK"), MaxStatusLength}
ContentTypeLengths == {Len("text/html; charset=UTF-8"), MaxContentTypeLength}

Responses ==
    {NoResponse}
    \cup {[isNull |-> FALSE, bodyLength |-> b, hasFilename |-> f,
           code |-> 200, statusLength |-> s, contentTypeLength |-> t] :
              b \in {0, 1, MaxBodyLength}, f \in BOOLEAN,
              s \in StatusLengths, t \in ContentTypeLengths}

SendOutcomes == {"full", "short", "error"}

\* what send returns when asked for length bytes: all of them, fewer, or -1
SendResult(outcome, length) ==
    CASE outcome = "full" -> length
      [] outcome = "short" -> length - 1
      [] OTHER -> -1

\* a test that only notices a send that returned an error
SendFailedOnError(sendResult, length) == sendResult < 0

\* if (sendResult != headerLength), if (sendResult != response->body.length)
SendFailed(sendResult, length) == sendResult # length

\* the number of characters %d and %ld print for n >= 0
RECURSIVE Digits(_)
Digits(n) == IF n < 10 THEN 1 ELSE 1 + Digits(n \div 10)

\* the return value of snprintf in sendResponseBody: the length of the whole
\* formatted header block, whether or not it fits the buffer
HeaderLength(r) ==
    Len("HTTP/1.0 ") + Digits(r.code) + Len(" ") + r.statusLength + Len(CRLF)
    + Len("Content-Type: ") + r.contentTypeLength + Len(CRLF)
    + Len("Content-Length: ") + Digits(r.bodyLength) + Len(CRLF)
    + Len("Server: Embeddable Web Server/") + Len("1.0.0") + Len(CRLF)
    + Len(CRLF)

\* the Response sendResponseFile builds when it cannot open or measure the
\* file: responseAlloc404NotFoundHTML(connection->request.path) or
\* responseAlloc500InternalErrorHTML(message)
ErrorResponse(outcome, path) ==
    IF outcome = "fopen fails"
    THEN [isNull |-> FALSE, hasFilename |-> FALSE, code |-> 404,
          statusLength |-> Len("Not Found"),
          contentTypeLength |-> Len("text/html; charset=UTF-8"),
          bodyLength |->
              Len("404 Not Found: The resource you specified ('%s') could not be found")
              - Len("%s") + Len(path)]
    ELSE [isNull |-> FALSE, hasFilename |-> FALSE, code |-> 500,
          statusLength |-> Len("Internal Error"),
          contentTypeLength |-> Len("text/html; charset=UTF-8"),
          bodyLength |->
              Len("500 Internal Error: There was an internal error while completing your request. %s")
              - Len("%s") + Len("fseek to end of file failed")]

ConnInit ==
    /\ stream \in ConnStreams
    /\ pos = 0
    /\ request = ZeroRequest
    /\ boundaryReplay = FALSE
    /\ conn = ConnStart
    /\ ServerStart
    /\ call = NoCall

\* a loop test that also takes a request still reading its body
FoundRequestEarly(r) == r.state \in {"Body", "Done"}

\* if (connection->request.state == RequestParseStateDone)
FoundRequest(r) == r.state = "Done"

\* what a send of length bytes that ended with outcome leaves on the socket
Sent(c, part, length, outcome) ==
    IF outcome = "error" THEN c.sent
    ELSE Append(c.sent, [of |-> c.sending, part |-> part, length |-> length,
                         all |-> outcome = "full"])

\* the Response sendResponseBody was called with, and the counter its
\* bytesSent points to: bytesSent of connectionHandlerThread, or
\* errorBytesSent of sendResponseFile
CurrentResponse(c) == IF c.sending = "error" THEN c.errorBody ELSE c.response

\* a counter that is set to the last count
SetBytesSent(c, n) ==
    IF c.sending = "error" THEN [c EXCEPT !.errorBytesSent = n]
    ELSE [c EXCEPT !.bytesSent = n]

\* *bytesSent = *bytesSent + sendResult
AddBytesSent(c, n) ==
    IF c.sending = "error" THEN [c EXCEPT !.errorBytesSent = @ + n]
    ELSE [c EXCEPT !.bytesSent = @ + n]

\* sendResponseBody returns result; in sendResponseFile the caller then does
\* *bytesSent = *bytesSent + errorBytesSent
BodyReturns(c, result) ==
    IF c.sending = "error"
    THEN [c EXCEPT !.bytesSent = @ + c.errorBytesSent, !.result = result,
                   !.pc = "afterSend"]
    ELSE [c EXCEPT !.result = result, !.pc = "afterSend"]

\* one turn of the receive loop: recv returned n > 0 bytes
RecvChunk(n) ==
    /\ conn.pc = "recv"
    /\ n >= 1
    /\ n <= SEND_RECV_BUFFER_SIZE
    /\ pos + n <= Len(stream)
    /\ LET parsed == requestParse(request, SubSeq(stream, pos + 1, pos + n))
       IN  /\ request' = parsed
           /\ conn' = IF parsed.fault # "none" THEN [conn EXCEPT !.pc = "crashed"]
                      ELSE IF FoundRequest(parsed)
                      THEN [conn EXCEPT !.foundRequest = TRUE, !.pc = "respond"]
                      ELSE conn
    /\ pos' = pos + n
    /\ boundaryReplay' = (boundaryReplay
                          \/ (request.state = "CRLF" /\ stream[pos + 1] # CR))
    /\ UNCHANGED <<stream, serverVars, call>>

\* recv returned <= 0: the peer closed, or the read failed
RecvEnd ==
    /\ conn.pc = "recv"
    /\ conn' = [conn EXCEPT !.recvFailed = TRUE, !.pc = "respond"]
    /\ UNCHANGED <<stream, pos, request, boundaryReplay, serverVars, call>>

\* if (foundRequest): createResponseForRequest returns response
CallHandler(response) ==
    /\ conn.pc = "respond"
    /\ conn.foundRequest
    /\ conn' = [conn EXCEPT !.handlerCalls = @ + 1,
                            !.stateAtHandler = request.state,
                            !.response = response,
                            !.pc = IF response.isNull THEN "close" ELSE "sendResponse"]
    /\ UNCHANGED <<stream, pos, request, boundaryReplay, serverVars, call>>

\* else: "No request found"
NoRequestFound ==
    /\ conn.pc = "respond"
    /\ ~conn.foundRequest
    /\ conn' = [conn EXCEPT !.pc = "close"]
    /\ UNCHANGED <<stream, pos, request, boundaryReplay, serverVars, call>>

\* a dispatch that looks at the file name first
sendResponseFileFirst(response) ==
    IF response.hasFilename THEN "sendResponseFile"
    ELSE IF response.bodyLength > 0 THEN "sendResponseBody"
    ELSE "assert"

\* sendResponse: what it goes on to
sendResponse(response) ==
    IF response.bodyLength > 0 THEN "sendResponseBody"
    ELSE IF response.hasFilename THEN "sendResponseFile"
    ELSE "assert"

\* sendResponse: the dispatch.  assert(0) ends the process, or is compiled
\* out (NDEBUG) and 1 is returned.
SendResponse(assertsEnabled) ==
    /\ conn.pc = "sendResponse"
    /\ conn' =
         LET called == [conn EXCEPT !.sendResponseCalls = @ + 1, !.sending = "response"]
             target == sendResponse(conn.response)
         IN  IF target = "sendResponseBody" THEN [called EXCEPT !.pc = "bodyHeader"]
             ELSE IF target = "sendResponseFile" THEN [called EXCEPT !.pc = "fileOpen"]
             ELSE IF assertsEnabled THEN [called EXCEPT !.pc = "aborted"]
             ELSE [called EXCEPT !.result = 1, !.pc = "afterSend"]
    /\ UNCHANGED <<stream, pos, request, boundaryReplay, serverVars, call>>

\* sendResponseBody: snprintf into connection->responseHeader and the send
\* of headerLength bytes from it
SendBodyHeader(outcome) ==
    /\ conn.pc = "bodyHeader"
    /\ conn' =
         LET headerLength == HeaderLength(CurrentResponse(conn))
             sendResult == SendResult(outcome, headerLength)
             sent == [conn EXCEPT !.sent = Sent(conn, "header", headerLength, outcome)]
         IN  IF SendFailed(sendResult, headerLength)
             THEN BodyReturns(sent, -1)
             ELSE [AddBytesSent(sent, sendResult) EXCEPT !.pc = "bodyBody"]
    /\ UNCHANGED <<stream, pos, request, boundaryReplay, serverVars, call>>

\* sendResponseBody: if (response->body.length > 0) the send of the body
SendBodyBody(outcome) ==
    /\ conn.pc = "bodyBody"
    /\ conn' =
         LET length == CurrentResponse(conn).bodyLength
             sendResult == SendResult(outcome, length)
             sent == [conn EXCEPT !.sent = Sent(conn, "body", length, outcome)]
         IN  IF length > 0
             THEN IF SendFailed(sendResult, length)
                  THEN BodyReturns(sent, -1)
                  ELSE BodyReturns(AddBytesSent(sent, sendResult), 0)
             ELSE BodyReturns(conn, 0)
    /\ UNCHANGED <<stream, pos, request, boundaryReplay, serverVars, call>>

\* a read or a send of sendResponseFile failed: failedAt is the length of
\* the record of the socket when the first one did
FileFailure(c) == IF c.failedAt < 0 THEN [c EXCEPT !.failedAt = Len(c.sent)] ELSE c

\* fread failed: it returns the count of what it read, which is never -1, so
\* neither -1 == actualMIMEReadSize nor -1 == bytesRead is ever true
ReadFailure(c) == FileFailure([c EXCEPT !.readFailures = @ + 1])

\* sendResponseFile up to the header: fopen, the MIME sample, fseek, ftell, fseek
FileOpen(outcome, chunks) ==
    /\ conn.pc = "fileOpen"
    /\ conn' = CASE outcome = "fopen fails" ->
                      [conn EXCEPT !.errorResponse = TRUE,
                                   !.errorBody = ErrorResponse(outcome, request.path),
                                   !.pc = "fileExit"]
                 [] outcome = "seek fails" ->
                      [conn EXCEPT !.fileOpen = TRUE, !.errorResponse = TRUE,
                                   !.errorBody = ErrorResponse(outcome, request.path),
                                   !.pc = "fileExit"]
                 [] outcome = "fread fails" ->
                      [ReadFailure(conn) EXCEPT !.fileOpen = TRUE, !.chunksLeft = chunks,
                                                !.pc = "fileHeader"]
                 [] OTHER ->
                      [conn EXCEPT !.fileOpen = TRUE, !.chunksLeft = chunks,
                                   !.pc = "fileHeader"]
    /\ UNCHANGED <<stream, pos, request, boundaryReplay, serverVars, call>>

\* sendResponseFile: the header block.  headerLength is what
\* snprintfResponseHeader returned.
SendFileHeader(outcome, headerLength) ==
    /\ conn.pc = "fileHeader"
    /\ conn' =
         LET sendResult == SendResult(outcome, headerLength)
             sent == [conn EXCEPT !.sent = Sent(conn, "header", headerLength, outcome)]
         IN  IF SendFailed(sendResult, headerLength)
             THEN [FileFailure(sent) EXCEPT !.result = 1, !.pc = "fileExit"]
             ELSE [sent EXCEPT !.bytesSent = sendResult, !.pc = "fileChunk"]
    /\ UNCHANGED <<stream, pos, request, boundaryReplay, serverVars, call>>

\* sendResponseFile: one turn of the read and send loop.  fread returns a
\* count, never -1: a failed read returns what it read before the error, 0
\* like the end of the file or more.
SendFileChunk(readOk, bytesRead, outcome) ==
    /\ conn.pc = "fileChunk"
    /\ readOk => bytesRead >= 1
    /\ conn' =
         LET read == IF readOk THEN conn ELSE ReadFailure(conn)
             sendResult == SendResult(outcome, bytesRead)
             sent == [read EXCEPT !.sent = Sent(conn, "chunk", bytesRead, outcome)]
         IN  IF conn.chunksLeft = 0
             THEN [conn EXCEPT !.pc = "fileExit"]
             ELSE IF bytesRead = 0
             THEN [read EXCEPT !.pc = "fileExit"]
             ELSE IF SendFailed(sendResult, bytesRead)
             THEN [FileFailure(sent) EXCEPT !.result = 1, !.pc = "fileExit"]
             ELSE [sent EXCEPT !.bytesSent = @ + sendResult, !.chunksLeft = @ - 1]
    /\ UNCHANGED <<stream, pos, request, boundaryReplay, serverVars, call>>

\* sendResponseFile: exit
FileExit ==
    /\ conn.pc = "fileExit"
    /\ conn' =
         LET closed == IF conn.fileOpen
                       THEN [conn EXCEPT !.fileOpen = FALSE, !.fileCloses = @ + 1]
                       ELSE conn
         IN  IF conn.errorResponse
             THEN [closed EXCEPT !.sending = "error", !.errorBytesSent = 0,
                                 !.pc = "bodyHeader"]
             ELSE [closed EXCEPT !.pc = "afterSend"]
    /\ UNCHANGED <<stream, pos, request, boundaryReplay, serverVars, call>>

\* a release that is skipped when the send failed
ReleaseResponseOnSuccess(c) ==
    IF c.result = 0 THEN [c EXCEPT !.responseFrees = @ + 1, !.pc = "close"]
    ELSE [c EXCEPT !.pc = "close"]

\* responseFree(response) after sendResponse returned
ReleaseResponse(c) == [c EXCEPT !.responseFrees = @ + 1, !.pc = "close"]

AfterSend ==
    /\ conn.pc = "afterSend"
    /\ conn' = ReleaseResponse(conn)
    /\ UNCHANGED <<stream, pos, request, boundaryReplay, serverVars, call>>

\* close(connection->socketfd) ... connectionFree(connection)
CloseConnection ==
    /\ conn.pc = "close"
    /\ conn' = [conn EXCEPT !.socketCloses = @ + 1, !.connectionFrees = @ + 1,
                            !.pc = "finished"]
    /\ UNCHANGED <<stream, pos, request, boundaryReplay, serverVars, call>>

ConnNext ==
    \/ \E n \in ChunkSizes : RecvChunk(n)
    \/ RecvEnd
    \/ \E response \in Responses : CallHandler(response)
    \/ NoRequestFound
    \/ \E assertsEnabled \in BOOLEAN : SendResponse(assertsEnabled)
    \/ \E outcome \in SendOutcomes : SendBodyHeader(outcome)
    \/ \E outcome \in SendOutcomes : SendBodyBody(outcome)
    \/ \E outcome \in {"fopen fails", "fread fails", "seek fails", "ok"},
          chunks \in 0..MaxFileChunks :
          FileOpen(outcome, chunks)
    \/ \E outcome \in SendOutcomes, headerLength \in 1..MaxFileHeaderLength :
          SendFileHeader(outcome, headerLength)
    \/ \E readOk \in BOOLEAN, bytesRead \in {0, 1, SEND_RECV_BUFFER_SIZE},
          outcome \in SendOutcomes :
          SendFileChunk(readOk, bytesRead, outcome)
    \/ FileExit
    \/ AfterSend
    \/ CloseConnection

SpecConn == ConnInit /\ [][ConnNext]_vars

(***************************************************************************)
(* The end of the header block as the client wrote it: the number of bytes *)
(* up to and including the first CR LF CR LF (Len(s) + 1 when there is     *)
(* none), and the Content-Length that the headers received up to there     *)
(* declare.                                                                *)
(***************************************************************************)
BlankLineEnd(s) ==
    LET ends == {k \in 4..Len(s) : SubSeq(s, k - 3, k) = CRLF \o CRLF}
    IN  IF ends = {} THEN Len(s) + 1
        ELSE CHOOSE k \in ends : \A j \in ends : k <= j

\* [declared |-> TRUE, n |-> N] when the header block of the stream ends the
\* parser's header states with a Content-Length header whose value reads as N
DeclaredLength ==
    LET e == BlankLineEnd(stream)
        atEnd == requestParse(ZeroRequest, Prefix(e))
        found == headerInRequest(ContentLengthName, atEnd)
        scanned == ScanLong(HeaderValueStr(atEnd, found.index))
    IN  IF e <= Len(stream) /\ atEnd.state \in {"Body", "Done"}
           /\ ~found.fault /\ found.index >= 0 /\ scanned.items = 1
        THEN [declared |-> TRUE, n |-> scanned.value]
        ELSE [declared |-> FALSE, n |-> 0]

\* the number of bytes after the header block that the parser has consumed
BodyBytesFed == pos - BlankLineEnd(stream)

(***************************************************************************)
(* C9: with Content-Length N, 0 <= N <= REQUEST_MAX_BODY_LENGTH, the       *)
(* parser is Done exactly when N bytes have followed the header block      *)
(* (at once when N = 0), and then the body has N bytes and bodyTruncated   *)
(* is false.  Stated over the first N bytes that follow the header block.  *)
(***************************************************************************)
C9_DoneAtDeclaredLength ==
    LET d == DeclaredLength
    IN  (d.declared /\ d.n >= 0 /\ d.n <= REQUEST_MAX_BODY_LENGTH
         /\ BodyBytesFed >= 0 /\ BodyBytesFed <= d.n)
        => /\ (request.state = "Done") <=> (BodyBytesFed = d.n)
           /\ BodyBytesFed = d.n =>
                 /\ request.body.length = d.n
                 /\ ~request.warnings.bodyTruncated
                 /\ request.fault = "none"

\* the same for N >= 1, which is what the code does
C9_DoneAtPositiveLength ==
    DeclaredLength.n >= 1 => C9_DoneAtDeclaredLength

C9_PositiveWitness ==
    /\ DeclaredLength.declared /\ DeclaredLength.n = 2
    /\ BodyBytesFed = 2 /\ request.state = "Done"

(***************************************************************************)
(* C10 as claimed: every call that feeds bytes to a Request that is Done   *)
(* leaves bodyTruncated set.                                               *)
(***************************************************************************)
C10_AnyByteAfterDoneTruncates ==
    [][(request.state = "Done" /\ pos' > pos) => request'.warnings.bodyTruncated]_vars

(***************************************************************************)
(* C10 as the code has it: a call that feeds bytes to a Request that is    *)
(* Done sets bodyTruncated exactly when body storage was allocated, and    *)
(* otherwise leaves the flag as it was (false).                            *)
(***************************************************************************)
C10_ByteAfterDoneTruncatesAllocatedBody ==
    [][(request.state = "Done" /\ pos' > pos) =>
          /\ request'.state = "Done"
          /\ request'.warnings.bodyTruncated = request.body.allocated]_vars

\* a byte arrived after Done on a request with a body, and on one without
C10_Witness ==
    /\ request.state = "Done" /\ request.body.allocated
    /\ request.warnings.bodyTruncated
    /\ BodyBytesFed = request.body.length + 1


(***************************************************************************)
(* C7: the handler createResponseForRequest is invoked at most once on a   *)
(* connection and only with the parser in state Done; when recv returns    *)
(* <= 0 before Done was reached the handler is never invoked, no response  *)
(* byte is sent, and the thread goes on to close the connection, once.     *)
(***************************************************************************)
C7_HandlerOnlyWhenDone ==
    /\ conn.handlerCalls <= 1
    /\ conn.handlerCalls = 1 =>
          /\ conn.stateAtHandler = "Done"
          /\ request.state = "Done"
          /\ ~conn.recvFailed
    /\ conn.recvFailed =>
          /\ request.state # "Done"
          /\ conn.handlerCalls = 0
          /\ conn.sendResponseCalls = 0
          /\ conn.sent = <<>>
          /\ conn.pc \in {"respond", "close", "finished"}
          /\ conn.pc = "finished" => conn.socketCloses = 1
    /\ conn.socketCloses = IF conn.pc = "finished" THEN 1 ELSE 0

C7_Witness ==
    /\ conn.pc = "finished"
    /\ conn.recvFailed
    /\ request.state = "Body"
    /\ conn.socketCloses = 1

(***************************************************************************)
(* C8: a non-NULL Response returned by the handler is passed to            *)
(* sendResponse exactly once and released with responseFree exactly once,  *)
(* after sendResponse has returned, whatever the result of the send; its   *)
(* header and its body go out at most once.  (A Response with neither a    *)
(* body nor a file name ends the process in assert when asserts are        *)
(* compiled in; nothing runs after that.)                                  *)
(***************************************************************************)
SentCount(of, part) ==
    Cardinality({k \in 1..Len(conn.sent) :
                    conn.sent[k].of = of /\ conn.sent[k].part = part})

C8_ResponseConsumedOnce ==
    /\ conn.sendResponseCalls <= 1
    /\ conn.responseFrees <= 1
    /\ conn.sendResponseCalls = 1 => conn.handlerCalls = 1 /\ ~conn.response.isNull
    /\ conn.responseFrees = 1 =>
          conn.sendResponseCalls = 1 /\ conn.pc \in {"close", "finished"}
    /\ (conn.pc \in {"close", "finished"} /\ ~conn.response.isNull) =>
          conn.sendResponseCalls = 1 /\ conn.responseFrees = 1
    /\ conn.response.isNull => conn.sendResponseCalls = 0 /\ conn.responseFrees = 0
    /\ SentCount("response", "header") <= 1
    /\ SentCount("response", "body") <= 1

C8_Witness ==
    /\ conn.pc = "finished"
    /\ ~conn.response.isNull
    /\ conn.result # 0
    /\ conn.sendResponseCalls = 1
    /\ conn.responseFrees = 1

(***************************************************************************)
(* C18 as claimed: sendResponse sends the in-memory body when the body     *)
(* length is greater than 0, even if a file name is also set; otherwise,   *)
(* if a file name is set, it streams the file; a Response with neither     *)
(* ends the process in an assertion failure, and no byte is sent for it.   *)
(***************************************************************************)
NeitherBodyNorFile(r) == ~r.isNull /\ r.bodyLength = 0 /\ ~r.hasFilename

InSendResponseBody == conn.pc \in {"bodyHeader", "bodyBody"}

\* the sends sendResponseBody has made for the Response it was called with
BodySends == SelectSeq(conn.sent, LAMBDA e : e.of = conn.sending /\ e.part # "chunk")

\* the counter sendResponseBody adds to
BodyCounter(c) == IF c.sending = "error" THEN c.errorBytesSent ELSE c.bytesSent

C19_HeaderStep ==
    conn.pc = "bodyHeader" =>
        LET headerLength == HeaderLength(CurrentResponse(conn))
        IN  \/ /\ conn'.pc = "bodyBody"
               /\ conn'.sent = Append(conn.sent,
                                  [of |-> conn.sending, part |-> "header",
                                   length |-> headerLength, all |-> TRUE])
               /\ BodyCounter(conn') = BodyCounter(conn) + headerLength
            \/ /\ conn'.pc = "afterSend"
               /\ conn'.result = -1
               /\ Len(conn'.sent) <= Len(conn.sent) + 1
               /\ \A k \in 1..Len(conn'.sent) :
                      k > Len(conn.sent) =>
                          /\ conn'.sent[k].part = "header"
                          /\ ~conn'.sent[k].all
               /\ BodyCounter(conn') = BodyCounter(conn)

C19_BodyStep ==
    conn.pc = "bodyBody" =>
        LET length == CurrentResponse(conn).bodyLength
        IN  /\ conn'.pc = "afterSend"
            /\ \/ /\ conn'.result = 0
                  /\ conn'.sent = Append(conn.sent,
                                     [of |-> conn.sending, part |-> "body",
                                      length |-> length, all |-> TRUE])
                  /\ BodyCounter(conn') = BodyCounter(conn) + length
               \/ /\ conn'.result = -1
                  /\ Len(conn'.sent) <= Len(conn.sent) + 1
                  /\ \A k \in 1..Len(conn'.sent) :
                         k > Len(conn.sent) =>
                             /\ conn'.sent[k].part = "body"
                             /\ ~conn'.sent[k].all
                  /\ BodyCounter(conn') = BodyCounter(conn)

C19_SendState ==
    /\ Len(BodySends) <= 2
    /\ Len(BodySends) >= 1 => BodySends[1].part = "header"
    /\ Len(BodySends) = 2 => BodySends[1].all /\ BodySends[2].part = "body"
    /\ conn.pc = "bodyHeader" => BodySends = <<>> /\ BodyCounter(conn) = 0
    /\ conn.pc = "bodyBody" => Len(BodySends) = 1 /\ BodySends[1].all
    /\ (conn.pc \in {"afterSend", "close", "finished"} /\ conn.result = 0
        /\ sendResponse(conn.response) = "sendResponseBody") =>
           /\ conn.bytesSent = HeaderLength(conn.response) + conn.response.bodyLength
           /\ Len(BodySends) = 2 /\ BodySends[2].all
    /\ (conn.pc \in {"afterSend", "close", "finished"} /\ conn.result = 0
        /\ conn.sending = "error") =>
           conn.errorBytesSent = HeaderLength(conn.errorBody) + conn.errorBody.bodyLength

C19_HeaderThenBody ==
    /\ []C19_SendState
    /\ [][C19_HeaderStep /\ C19_BodyStep]_vars

\* a Response with a body of MaxBodyLength bytes went out whole
C19_Witness ==
    /\ conn.pc = "finished"
    /\ conn.result = 0
    /\ conn.response.bodyLength = MaxBodyLength
    /\ conn.response.hasFilename
    /\ Len(conn.sent) = 2
    /\ conn.bytesSent = conn.sent[1].length + conn.sent[2].length
    /\ conn.bytesSent = HeaderLength(conn.response) + MaxBodyLength

(***************************************************************************)
(* C20: the length sendResponseBody passes to send for the header block    *)
(* never exceeds RESPONSE_HEADER_SIZE, the size of the connection's        *)
(* responseHeader buffer, however long the status and the content type     *)
(* are.                                                                    *)
(***************************************************************************)
HeaderSends == SelectSeq(conn.sent, LAMBDA e : e.part = "header")

C20_HeaderSendWithinBuffer ==
    \A k \in 1..Len(HeaderSends) : HeaderSends[k].length <= RESPONSE_HEADER_SIZE

\* the same for a Response whose formatted header block fits the buffer
C20_FittingHeaderSendWithinBuffer ==
    (~conn.response.isNull /\ HeaderLength(conn.response) < RESPONSE_HEADER_SIZE) =>
        C20_HeaderSendWithinBuffer


(***************************************************************************)
(* serverInit, serverStop, acceptConnectionsUntilStoppedInternal and the   *)
(* teardown of connectionHandlerThread, one action per statement that      *)
(* another thread can observe.                                             *)
(***************************************************************************)
Lock(m, t) == [locks EXCEPT ![m] = t]
Unlock(m) == [locks EXCEPT ![m] = NoThread]

\* close(fd)
Close(k, fd) ==
    [k EXCEPT !.open = @ \ {fd},
              !.listenerCloses = @ + (IF fd = ListenerFd THEN 1 ELSE 0),
              !.closesOfClosed = @ + (IF fd \in k.open THEN 0 ELSE 1)]

\* serverInit on a server no thread has used yet
serverInit ==
    /\ ~server.initialized
    /\ acceptThread.pc = "idle"
    /\ \A s \in Stoppers : stopThreads[s].calls = 0
    /\ server' = [server EXCEPT !.activeConnectionCount = 0,
                                !.shouldRun = TRUE,
                                !.initialized = TRUE]
    /\ locks' = FreeLocks
    /\ UNCHANGED <<acceptThread, stopThreads, units, kernel, counters, connVars, call>>

----------------------------------------------------------------------------
\* a thread calls serverStop(server)
StopCall(s) ==
    /\ stopThreads[s].pc \in {"idle", "returned"}
    /\ stopThreads[s].calls < MaxStopCalls
    /\ stopThreads' =
         [stopThreads EXCEPT ![s] =
             [@ EXCEPT !.pc = "lockGlobal",
                       !.calls = @ + 1,
                       !.onInitialized = server.initialized,
                       !.afterStopped =
                           /\ server.stopped
                           /\ \E t \in Stoppers : stopThreads[t].returns > 0,
                       !.closes = 0,
                       !.waits = 0]]
    /\ UNCHANGED <<server, locks, acceptThread, units, kernel, counters, connVars, call>>

\* serverMutexLock(server).  The mutex of a server that was never
\* initialized is zeroed memory: pthread_mutex_lock on it is undefined; it
\* locks where zeroed memory is a valid mutex, and fails elsewhere (the
\* result is not looked at).
StopLockGlobal(s, zeroedMutexLocks) ==
    /\ stopThreads[s].pc = "lockGlobal"
    /\ IF server.initialized \/ zeroedMutexLocks
       THEN /\ locks.globalMutex = NoThread
            /\ locks' = Lock("globalMutex", StopId(s))
       ELSE /\ ~server.initialized
            /\ locks' = locks
    /\ stopThreads' = [stopThreads EXCEPT ![s].pc = "checkInitialized"]
    /\ UNCHANGED <<server, acceptThread, units, kernel, counters, connVars, call>>

\* if (!server->initialized) return;  server->shouldRun = false;
StopCheckInitialized(s) ==
    /\ stopThreads[s].pc = "checkInitialized"
    /\ IF ~server.initialized
       THEN /\ stopThreads' = [stopThreads EXCEPT ![s].pc = "returned",
                                                  ![s].returns = @ + 1]
            /\ server' = server
       ELSE /\ stopThreads' = [stopThreads EXCEPT ![s].pc = "closeListener"]
            /\ server' = [server EXCEPT !.shouldRun = FALSE]
    /\ UNCHANGED <<locks, acceptThread, units, kernel, counters, connVars, call>>

\* if (server->listenerfd >= 0) close(server->listenerfd);
StopCloseListener(s) ==
    /\ stopThreads[s].pc = "closeListener"
    /\ IF server.listenerfd >= 0
       THEN /\ kernel' = Close(kernel, server.listenerfd)
            /\ stopThreads' = [stopThreads EXCEPT ![s].pc = "unlockGlobal",
                                                  ![s].closes = @ + 1]
       ELSE /\ kernel' = kernel
            /\ stopThreads' = [stopThreads EXCEPT ![s].pc = "unlockGlobal"]
    /\ UNCHANGED <<server, locks, acceptThread, units, counters, connVars, call>>

\* serverMutexUnlock(server)
StopUnlockGlobal(s) ==
    /\ stopThreads[s].pc = "unlockGlobal"
    /\ locks' = Unlock("globalMutex")
    /\ stopThreads' = [stopThreads EXCEPT ![s].pc = "lockStopped"]
    /\ UNCHANGED <<server, acceptThread, units, kernel, counters, connVars, call>>

\* pthread_mutex_lock(&server->stoppedMutex), at entry and when
\* pthread_cond_wait returns
StopLockStopped(s) ==
    /\ stopThreads[s].pc = "lockStopped"
    /\ locks.stoppedMutex = NoThread
    /\ locks' = Lock("stoppedMutex", StopId(s))
    /\ stopThreads' = [stopThreads EXCEPT ![s].pc = "testStopped"]
    /\ UNCHANGED <<server, acceptThread, units, kernel, counters, connVars, call>>

\* while (!server->stopped) pthread_cond_wait(...): the wait releases the mutex
StopTestStopped(s) ==
    /\ stopThreads[s].pc = "testStopped"
    /\ IF server.stopped
       THEN /\ stopThreads' = [stopThreads EXCEPT ![s].pc = "unlockStopped"]
            /\ locks' = locks
       ELSE /\ stopThreads' = [stopThreads EXCEPT ![s].pc = "waitStopped",
                                                  ![s].waits = 1]
            /\ locks' = Unlock("stoppedMutex")
    /\ UNCHANGED <<server, acceptThread, units, kernel, counters, connVars, call>>

\* pthread_cond_wait may return without a signal
StopSpuriousWakeup(s) ==
    /\ stopThreads[s].pc = "waitStopped"
    /\ stopThreads' = [stopThreads EXCEPT ![s].pc = "lockStopped"]
    /\ UNCHANGED <<server, locks, acceptThread, units, kernel, counters, connVars, call>>

\* pthread_mutex_unlock(&server->stoppedMutex); serverStop returns
StopUnlockStopped(s) ==
    /\ stopThreads[s].pc = "unlockStopped"
    /\ locks' = Unlock("stoppedMutex")
    /\ stopThreads' = [stopThreads EXCEPT ![s].pc = "returned",
                                          ![s].returns = @ + 1]
    /\ UNCHANGED <<server, acceptThread, units, kernel, counters, connVars, call>>

serverStop(s) ==
    \/ StopCall(s)
    \/ \E zeroedMutexLocks \in BOOLEAN : StopLockGlobal(s, zeroedMutexLocks)
    \/ StopCheckInitialized(s)
    \/ StopCloseListener(s)
    \/ StopUnlockGlobal(s)
    \/ StopLockStopped(s)
    \/ StopTestStopped(s)
    \/ StopUnlockStopped(s)

----------------------------------------------------------------------------
\* entry up to the loop: assert(server->initialized), socket, bind, listen
AcceptEnter(outcome) ==
    /\ acceptThread.pc = "idle"
    /\ server.initialized
    /\ CASE outcome = "socket fails" ->
              /\ server' = [server EXCEPT !.listenerfd = -1]
              /\ kernel' = kernel
              /\ acceptThread' = [acceptThread EXCEPT !.pc = "returned", !.result = 1]
         [] outcome = "bind fails" ->
              /\ server' = [server EXCEPT !.listenerfd = ListenerFd]
              /\ kernel' = [kernel EXCEPT !.open = @ \cup {ListenerFd}]
              /\ acceptThread' = [acceptThread EXCEPT !.pc = "returned", !.result = 1]
         [] OTHER ->
              /\ server' = [server EXCEPT !.listenerfd = ListenerFd]
              /\ kernel' = [kernel EXCEPT !.open = @ \cup {ListenerFd}]
              /\ acceptThread' = [acceptThread EXCEPT !.pc = "testShouldRun"]
    /\ UNCHANGED <<locks, stopThreads, units, counters, connVars, call>>

\* while (server->shouldRun)
AcceptTestShouldRun ==
    /\ acceptThread.pc = "testShouldRun"
    /\ acceptThread' = [acceptThread EXCEPT
                           !.pc = IF server.shouldRun THEN "accept" ELSE "lockGlobal"]
    /\ UNCHANGED <<server, locks, stopThreads, units, kernel, counters, connVars, call>>

\* accept returns: a connection, or -1 with errno EINTR, EBADF or another error
AcceptReturns(outcome) ==
    /\ acceptThread.pc = "accept"
    /\ CASE outcome = "connection" ->
              /\ server.listenerfd \in kernel.open
              /\ acceptThread.nextConnection <= MaxConnections
              /\ acceptThread' = [acceptThread EXCEPT !.pc = "lockFinished"]
         [] outcome = "EINTR" ->
              /\ server.listenerfd \in kernel.open
              /\ acceptThread' = [acceptThread EXCEPT !.errno = "EINTR",
                                                      !.pc = "testShouldRun"]
         [] outcome = "EBADF" ->
              /\ server.listenerfd \notin kernel.open
              /\ acceptThread' = [acceptThread EXCEPT !.errno = "EBADF",
                                                      !.pc = "testShouldRun"]
         [] OTHER ->
              /\ acceptThread' = [acceptThread EXCEPT !.errno = "other",
                                                      !.pc = "lockGlobal"]
    /\ UNCHANGED <<server, locks, stopThreads, units, kernel, counters, connVars, call>>

\* pthread_mutex_lock(&server->connectionFinishedLock)
AcceptLockFinished ==
    /\ acceptThread.pc = "lockFinished"
    /\ locks.connectionFinishedLock = NoThread
    /\ locks' = Lock("connectionFinishedLock", AcceptId)
    /\ acceptThread' = [acceptThread EXCEPT !.pc = "increment"]
    /\ UNCHANGED <<server, stopThreads, units, kernel, counters, connVars, call>>

\* server->activeConnectionCount++
AcceptIncrement ==
    /\ acceptThread.pc = "increment"
    /\ server' = [server EXCEPT !.activeConnectionCount = @ + 1]
    /\ units' = [units EXCEPT ![acceptThread.nextConnection].increments = @ + 1]
    /\ acceptThread' = [acceptThread EXCEPT !.pc = "unlockFinished"]
    /\ UNCHANGED <<locks, stopThreads, kernel, counters, connVars, call>>

\* pthread_mutex_unlock(&server->connectionFinishedLock)
AcceptUnlockFinished ==
    /\ acceptThread.pc = "unlockFinished"
    /\ locks' = Unlock("connectionFinishedLock")
    /\ acceptThread' = [acceptThread EXCEPT !.pc = "spawn"]
    /\ UNCHANGED <<server, stopThreads, units, kernel, counters, connVars, call>>

\* pthread_create: a failure is logged and the loop goes on
AcceptSpawn(created) ==
    /\ acceptThread.pc = "spawn"
    /\ units' = [units EXCEPT ![acceptThread.nextConnection].pc =
                                  IF created THEN "started" ELSE "notCreated"]
    /\ acceptThread' = [acceptThread EXCEPT !.nextConnection = @ + 1,
                                            !.pc = "testShouldRun"]
    /\ UNCHANGED <<server, locks, stopThreads, kernel, counters, connVars, call>>

\* serverMutexLock(server) after the loop
AcceptLockGlobal ==
    /\ acceptThread.pc = "lockGlobal"
    /\ locks.globalMutex = NoThread
    /\ locks' = Lock("globalMutex", AcceptId)
    /\ acceptThread' = [acceptThread EXCEPT !.pc = "closeListener"]
    /\ UNCHANGED <<server, stopThreads, units, kernel, counters, connVars, call>>

\* if (0 != server->listenerfd && errno != EBADF) close(server->listenerfd);
AcceptCloseListener ==
    /\ acceptThread.pc = "closeListener"
    /\ kernel' = IF 0 # server.listenerfd /\ acceptThread.errno # "EBADF"
                 THEN Close(kernel, server.listenerfd)
                 ELSE kernel
    /\ acceptThread' = [acceptThread EXCEPT !.pc = "unlockGlobal"]
    /\ UNCHANGED <<server, locks, stopThreads, units, counters, connVars, call>>

\* serverMutexUnlock(server); connectionFree(nextConnection);
AcceptUnlockGlobal ==
    /\ acceptThread.pc = "unlockGlobal"
    /\ locks' = Unlock("globalMutex")
    /\ acceptThread' = [acceptThread EXCEPT !.pc = "lockWait"]
    /\ UNCHANGED <<server, stopThreads, units, kernel, counters, connVars, call>>

\* pthread_mutex_lock(&server->connectionFinishedLock), before the wait loop
\* and when pthread_cond_wait returns
AcceptLockWait ==
    /\ acceptThread.pc = "lockWait"
    /\ locks.connectionFinishedLock = NoThread
    /\ locks' = Lock("connectionFinishedLock", AcceptId)
    /\ acceptThread' = [acceptThread EXCEPT !.pc = "testCount"]
    /\ UNCHANGED <<server, stopThreads, units, kernel, counters, connVars, call>>

\* a wait loop that lets one connection go on
AllButOneFinished(count) == ~(count > 1)

\* the negation of the loop test: while (server->activeConnectionCount > 0)
AllConnectionsFinished(count) == ~(count > 0)

\* the wait loop: pthread_cond_wait releases the lock
AcceptTestCount ==
    /\ acceptThread.pc = "testCount"
    /\ IF AllConnectionsFinished(server.activeConnectionCount)
       THEN /\ acceptThread' = [acceptThread EXCEPT !.pc = "unlockWait"]
            /\ locks' = locks
       ELSE /\ acceptThread' = [acceptThread EXCEPT !.pc = "waitFinished"]
            /\ locks' = Unlock("connectionFinishedLock")
    /\ UNCHANGED <<server, stopThreads, units, kernel, counters, connVars, call>>

\* pthread_cond_wait may return without a signal
AcceptSpuriousWakeup ==
    /\ acceptThread.pc = "waitFinished"
    /\ acceptThread' = [acceptThread EXCEPT !.pc = "lockWait"]
    /\ UNCHANGED <<server, locks, stopThreads, units, kernel, counters, connVars, call>>

\* pthread_mutex_unlock(&server->connectionFinishedLock)
AcceptUnlockWait ==
    /\ acceptThread.pc = "unlockWait"
    /\ locks' = Unlock("connectionFinishedLock")
    /\ acceptThread' = [acceptThread EXCEPT !.pc = "lockStopped"]
    /\ UNCHANGED <<server, stopThreads, units, kernel, counters, connVars, call>>

\* pthread_mutex_lock(&server->stoppedMutex)
AcceptLockStopped ==
    /\ acceptThread.pc = "lockStopped"
    /\ locks.stoppedMutex = NoThread
    /\ locks' = Lock("stoppedMutex", AcceptId)
    /\ acceptThread' = [acceptThread EXCEPT !.pc = "setStopped"]
    /\ UNCHANGED <<server, stopThreads, units, kernel, counters, connVars, call>>

\* server->stopped = true
AcceptSetStopped ==
    /\ acceptThread.pc = "setStopped"
    /\ server' = [server EXCEPT !.stopped = TRUE]
    /\ acceptThread' = [acceptThread EXCEPT !.pc = "signalStopped"]
    /\ UNCHANGED <<locks, stopThreads, units, kernel, counters, connVars, call>>

\* pthread_cond_signal(&server->stoppedCond): one waiting thread, if any
AcceptSignalStopped ==
    /\ acceptThread.pc = "signalStopped"
    /\ LET waiting == {s \in Stoppers : stopThreads[s].pc = "waitStopped"}
       IN  IF waiting = {}
           THEN stopThreads' = stopThreads
           ELSE \E s \in waiting :
                   stopThreads' = [stopThreads EXCEPT ![s].pc = "lockStopped"]
    /\ acceptThread' = [acceptThread EXCEPT !.pc = "unlockStopped"]
    /\ UNCHANGED <<server, locks, units, kernel, counters, connVars, call>>

\* pthread_mutex_unlock(&server->stoppedMutex); return 0;
AcceptUnlockStopped ==
    /\ acceptThread.pc = "unlockStopped"
    /\ locks' = Unlock("stoppedMutex")
    /\ acceptThread' = [acceptThread EXCEPT !.pc = "returned", !.result = 0]
    /\ UNCHANGED <<server, stopThreads, units, kernel, counters, connVars, call>>

acceptConnectionsUntilStoppedInternal ==
    \/ \E outcome \in {"socket fails", "bind fails", "ok"} : AcceptEnter(outcome)
    \/ AcceptTestShouldRun
    \/ \E outcome \in {"connection", "EINTR", "EBADF", "other"} : AcceptReturns(outcome)
    \/ AcceptLockFinished
    \/ AcceptIncrement
    \/ AcceptUnlockFinished
    \/ \E created \in BOOLEAN : AcceptSpawn(created)
    \/ AcceptLockGlobal
    \/ AcceptCloseListener
    \/ AcceptUnlockGlobal
    \/ AcceptLockWait
    \/ AcceptTestCount
    \/ AcceptUnlockWait
    \/ AcceptLockStopped
    \/ AcceptSetStopped
    \/ AcceptSignalStopped
    \/ AcceptUnlockStopped

----------------------------------------------------------------------------
\* connectionHandlerThread at its start: under
\* if (OptionIncludeStatusPageAndCounters), which the embedding program
\* sets, counters.activeConnections++ with counters.lock held
UnitBegin(i, option) ==
    /\ units[i].pc = "started"
    /\ units' = [units EXCEPT ![i].pc = "serving", ![i].counted = option]
    /\ counters' = IF option
                   THEN [counters EXCEPT !.activeConnections = @ + 1]
                   ELSE counters
    /\ UNCHANGED <<server, locks, acceptThread, stopThreads, kernel, connVars, call>>

\* connectionHandlerThread from there to close(connection->socketfd) and
\* counters.activeConnections-- with counters.lock held
UnitServe(i) ==
    /\ units[i].pc = "serving"
    /\ units' = [units EXCEPT ![i].pc = "lockFinished"]
    /\ counters' = [counters EXCEPT !.activeConnections = @ - 1]
    /\ UNCHANGED <<server, locks, acceptThread, stopThreads, kernel, connVars, call>>

\* pthread_mutex_lock(&connection->server->connectionFinishedLock)
UnitLockFinished(i) ==
    /\ units[i].pc = "lockFinished"
    /\ locks.connectionFinishedLock = NoThread
    /\ locks' = Lock("connectionFinishedLock", UnitId(i))
    /\ units' = [units EXCEPT ![i].pc = "decrement"]
    /\ UNCHANGED <<server, acceptThread, stopThreads, kernel, counters, connVars, call>>

\* a teardown that takes two off the count
DecrementTwice(count) == count - 2

\* connection->server->activeConnectionCount--
Decrement(count) == count - 1

UnitDecrement(i) ==
    /\ units[i].pc = "decrement"
    /\ server' = [server EXCEPT
                     !.activeConnectionCount = Decrement(server.activeConnectionCount)]
    /\ units' = [units EXCEPT ![i].pc = "signal", ![i].decrements = @ + 1]
    /\ UNCHANGED <<locks, acceptThread, stopThreads, kernel, counters, connVars, call>>

\* pthread_cond_signal(&connection->server->connectionFinishedCond)
UnitSignal(i) ==
    /\ units[i].pc = "signal"
    /\ acceptThread' = IF acceptThread.pc = "waitFinished"
                       THEN [acceptThread EXCEPT !.pc = "lockWait"]
                       ELSE acceptThread
    /\ units' = [units EXCEPT ![i].pc = "unlockFinished"]
    /\ UNCHANGED <<server, locks, stopThreads, kernel, counters, connVars, call>>

\* pthread_mutex_unlock(...); connectionFree(connection); return
UnitUnlockFinished(i) ==
    /\ units[i].pc = "unlockFinished"
    /\ locks' = Unlock("connectionFinishedLock")
    /\ units' = [units EXCEPT ![i].pc = "finished"]
    /\ UNCHANGED <<server, acceptThread, stopThreads, kernel, counters, connVars, call>>

\* static bool OptionIncludeStatusPageAndCounters = true;
OptionIncludeStatusPageAndCounters == TRUE

connectionHandlerThread(i) ==
    \/ UnitBegin(i, OptionIncludeStatusPageAndCounters)
    \/ UnitServe(i)
    \/ UnitLockFinished(i)
    \/ UnitDecrement(i)
    \/ UnitSignal(i)
    \/ UnitUnlockFinished(i)

----------------------------------------------------------------------------
Init ==
    /\ stream = <<>>
    /\ pos = 0
    /\ request = ZeroRequest
    /\ boundaryReplay = FALSE
    /\ conn = ConnStart
    /\ ServerStart
    /\ call = NoCall

Next ==
    \/ serverInit
    \/ \E s \in Stoppers : serverStop(s)
    \/ \E s \in Stoppers : StopSpuriousWakeup(s)
    \/ acceptConnectionsUntilStoppedInternal
    \/ AcceptSpuriousWakeup
    \/ \E i \in Connections : connectionHandlerThread(i)

Spec == Init /\ [][Next]_vars

\* the same with OptionIncludeStatusPageAndCounters as the embedding program
\* has set it when a connection thread starts, instead of as it is initialized
UnitBeginWithOption(i) ==
    \E option \in BOOLEAN : UnitBegin(i, option)

NextWithOption ==
    \/ Next
    \/ \E i \in Connections : UnitBeginWithOption(i)

SpecCounters == Init /\ [][NextWithOption]_vars

\* a thread that can again and again take a step of its function (a mutex
\* it waits for is free again and again) eventually takes it; a
\* pthread_cond_wait that nobody signals is not made to return, and nobody is
\* made to call serverStop
StopRuns(s) ==
    \/ \E zeroedMutexLocks \in BOOLEAN : StopLockGlobal(s, zeroedMutexLocks)
    \/ StopCheckInitialized(s)
    \/ StopCloseListener(s)
    \/ StopUnlockGlobal(s)
    \/ StopLockStopped(s)
    \/ StopTestStopped(s)
    \/ StopUnlockStopped(s)

Fairness ==
    /\ SF_vars(acceptConnectionsUntilStoppedInternal)
    /\ \A s \in Stoppers : SF_vars(StopRuns(s))
    /\ \A i \in Connections : SF_vars(connectionHandlerThread(i))

FairSpec == Init /\ [][Next]_vars /\ Fairness


(***************************************************************************)
(* C2: the shutdown barrier.  server->stopped is true only in states where *)
(* activeConnectionCount is 0 and every connection thread that was created *)
(* has done its decrement; from then on the accept thread is past its      *)
(* loop, so the count stays 0 and no connection thread is created.         *)
(***************************************************************************)
Spawned(i) == units[i].pc \notin {"unused", "notCreated"}

C2_ShutdownBarrier ==
    /\ server.stopped =>
          /\ server.activeConnectionCount = 0
          /\ \A i \in Connections : Spawned(i) => units[i].decrements = 1
          /\ acceptThread.pc \in {"signalStopped", "unlockStopped", "returned"}
    /\ \A s \in Stoppers :
          stopThreads[s].pc = "returned" /\ stopThreads[s].onInitialized
              => server.stopped

C2_Witness ==
    /\ server.stopped
    /\ \A i \in Connections : Spawned(i) /\ units[i].decrements = 1
    /\ \E s \in Stoppers : stopThreads[s].pc = "returned" /\ stopThreads[s].waits = 1

(***************************************************************************)
(* C3: activeConnectionCount is never negative.  Each accepted connection  *)
(* is counted once, by the accept thread holding connectionFinishedLock,   *)
(* before its thread is created; its thread takes it off the count once,   *)
(* holding the same lock, before it signals connectionFinishedCond.        *)
(***************************************************************************)
RECURSIVE SumOver(_, _)
SumOver(f, n) == IF n = 0 THEN 0 ELSE f[n] + SumOver(f, n - 1)

C3_CountState ==
    /\ server.activeConnectionCount >= 0
    /\ server.activeConnectionCount =
          SumOver([i \in Connections |-> units[i].increments - units[i].decrements],
                  MaxConnections)
    /\ \A i \in Connections :
          /\ units[i].increments \in {0, 1}
          /\ units[i].decrements \in {0, 1}
          /\ units[i].decrements <= units[i].increments
          /\ units[i].pc # "unused" => units[i].increments = 1
          /\ units[i].pc \in {"unlockFinished", "finished"} => units[i].decrements = 1
          /\ units[i].pc \in {"started", "serving", "lockFinished", "decrement",
                              "notCreated"}
                => units[i].decrements = 0

C3_CountStep ==
    server'.activeConnectionCount # server.activeConnectionCount =>
        /\ locks.connectionFinishedLock # NoThread
        /\ locks'.connectionFinishedLock = locks.connectionFinishedLock
        /\ \/ /\ locks.connectionFinishedLock = AcceptId
              /\ server'.activeConnectionCount = server.activeConnectionCount + 1
              /\ units[acceptThread.nextConnection].pc = "unused"
           \/ \E i \in Connections :
                 /\ locks.connectionFinishedLock = UnitId(i)
                 /\ server'.activeConnectionCount = server.activeConnectionCount - 1
                 /\ units[i].pc = "decrement" /\ units'[i].pc = "signal"

C3_CountDiscipline == []C3_CountState /\ [][C3_CountStep]_vars

C3_Witness ==
    /\ server.activeConnectionCount = 0
    /\ \A i \in Connections : units[i].pc = "finished" /\ units[i].decrements = 1


(***************************************************************************)
(* C4: shutdown liveness.  Once serverStop has been called on an           *)
(* initialized server whose accept entry point is running, and every       *)
(* connection thread that runs finishes, the accept thread eventually sets *)
(* stopped, whatever accept and pthread_create returned before.            *)
(***************************************************************************)
StopRequested ==
    /\ server.initialized
    /\ acceptThread.pc \notin {"idle", "returned"}
    /\ \E s \in Stoppers : stopThreads[s].pc \notin {"idle", "returned"}

C4_ShutdownLiveness == StopRequested ~> server.stopped

\* the same, for runs in which every pthread_create succeeded
ThreadNotCreated == \E i \in Connections : units[i].pc = "notCreated"

C4_LivenessWhenThreadsStart == StopRequested ~> (server.stopped \/ ThreadNotCreated)

C4_Witness ==
    /\ server.stopped
    /\ acceptThread.pc = "returned"
    /\ \E i \in Connections : units[i].pc = "finished"
    /\ \E s \in Stoppers : stopThreads[s].pc = "returned" /\ stopThreads[s].waits = 1


(***************************************************************************)
(* C5: a serverStop call made after the server has stopped and an earlier  *)
(* serverStop call has returned is turned away as already stopped: it does *)
(* not wait, and it does not close the listening descriptor again.         *)
(***************************************************************************)
C5_SecondStopRepeatsNothing ==
    \A s \in Stoppers :
        stopThreads[s].afterStopped =>
            /\ stopThreads[s].pc # "waitStopped"
            /\ stopThreads[s].closes = 0

\* the part of C5 the code keeps: such a call never waits
C5_SecondStopDoesNotWait ==
    \A s \in Stoppers :
        stopThreads[s].afterStopped => stopThreads[s].waits = 0

(***************************************************************************)
(* C6: serverStop on a server that was never initialized changes no field  *)
(* of the server, does not wait, and holds no lock when it has returned.   *)
(***************************************************************************)
C6_StopUninitializedIsNoOp ==
    \A s \in Stoppers :
        (stopThreads[s].calls > 0 /\ ~stopThreads[s].onInitialized) =>
            /\ server = ZeroServer
            /\ stopThreads[s].waits = 0
            /\ stopThreads[s].pc = "returned" =>
                  /\ locks.globalMutex # StopId(s)
                  /\ locks.stoppedMutex # StopId(s)
                  /\ locks.connectionFinishedLock # StopId(s)

\* the part of C6 the code keeps: no field changes and the call does not wait
C6_StopUninitializedChangesNothing ==
    \A s \in Stoppers :
        (stopThreads[s].calls > 0 /\ ~stopThreads[s].onInitialized) =>
            /\ server = ZeroServer
            /\ stopThreads[s].waits = 0
            /\ stopThreads[s].closes = 0
            /\ stopThreads[s].pc \in {"lockGlobal", "checkInitialized", "returned"}


(***************************************************************************)
(* C11: method, path and version each hold the first capacity - 1 bytes    *)
(* received for the field; the field's truncation flag is set exactly when *)
(* a byte of the field was dropped; and apart from those three flags the   *)
(* Request is the one the parser builds from the same bytes with each      *)
(* field cut to what was stored, so the parser goes through the same       *)
(* states after the field.                                                 *)
(***************************************************************************)
RECURSIVE UpTo(_, _)
UpTo(s, d) == IF s = <<>> \/ s[1] = d THEN <<>> ELSE <<s[1]>> \o UpTo(Tail(s), d)

\* what follows the first d of s, with that d
FromDelimiter(s, d) == SubSeq(s, Len(UpTo(s, d)) + 1, Len(s))

Rest(s) == IF s = <<>> THEN <<>> ELSE Tail(s)

Take(s, n) == SubSeq(s, 1, Min(Len(s), n))

MethodReceived == UpTo(Prefix(pos), SP)
PathReceived == UpTo(Rest(FromDelimiter(Prefix(pos), SP)), SP)
AfterPath == FromDelimiter(Rest(FromDelimiter(Prefix(pos), SP)), SP)
VersionReceived == UpTo(Rest(AfterPath), CR)
AfterVersion == FromDelimiter(Rest(AfterPath), CR)

ShortenedPrefix ==
    LET afterMethod == FromDelimiter(Prefix(pos), SP)
    IN  Take(MethodReceived, MethodCapacity - 1)
        \o (IF afterMethod = <<>> THEN <<>>
            ELSE <<SP>> \o Take(PathReceived, PathCapacity - 1)
                 \o (IF AfterPath = <<>> THEN <<>>
                     ELSE <<SP>> \o Take(VersionReceived, VersionCapacity - 1)
                          \o AfterVersion))

WithoutFieldFlags(r) ==
    [r EXCEPT !.warnings.methodTruncated = FALSE,
              !.warnings.pathTruncated = FALSE,
              !.warnings.versionTruncated = FALSE]

C11_FieldTruncation ==
    /\ request.method = Take(MethodReceived, MethodCapacity - 1)
    /\ request.warnings.methodTruncated = (Len(MethodReceived) > MethodCapacity - 1)
    /\ request.path = Take(PathReceived, PathCapacity - 1)
    /\ request.warnings.pathTruncated = (Len(PathReceived) > PathCapacity - 1)
    /\ request.version = Take(VersionReceived, VersionCapacity - 1)
    /\ request.warnings.versionTruncated = (Len(VersionReceived) > VersionCapacity - 1)
    /\ WithoutFieldFlags(request) = requestParse(ZeroRequest, ShortenedPrefix)

\* all three fields lost bytes and the request was parsed to its end
C11_Witness ==
    /\ request.state = "Done"
    /\ request.warnings.methodTruncated
    /\ request.warnings.pathTruncated
    /\ request.warnings.versionTruncated
    /\ Len(MethodReceived) = MethodCapacity + 1
    /\ Len(VersionReceived) = VersionCapacity


(***************************************************************************)
(* The passes of the switch that requestParse makes over the bytes fed so  *)
(* far: the Request before the pass, the byte, and the Request after it.   *)
(***************************************************************************)
RECURSIVE Passes(_, _, _)
Passes(r, s, i) ==
    IF ~(i < Len(s)) \/ r.fault # "none" THEN <<>>
    ELSE LET step == ParseByte(r, s[i + 1])
             at == IF step.replay THEN ReplayIndex(i) ELSE i
         IN  <<[before |-> r, byte |-> s[i + 1], after |-> step.req, index |-> i]>>
             \o Passes(step.req, s, (at + 1) % SizeModulus)

ParseTrace == Passes(ZeroRequest, Prefix(pos), 0)

(***************************************************************************)
(* C12: headersCount never exceeds REQUEST_MAX_HEADERS; it goes up by one  *)
(* exactly in a pass where a CR ends a header value of stored length > 0   *)
(* with headersCount below the maximum; a header byte that arrives with    *)
(* headersCount at the maximum is stored nowhere and sets                  *)
(* headersTooManyDropped.                                                  *)
(***************************************************************************)
Commits(p) ==
    /\ p.before.state = "HeaderValue"
    /\ p.byte = CR
    /\ p.before.headersCount < REQUEST_MAX_HEADERS
    /\ p.before.headers[p.before.headersCount].value.length > 0

\* a byte of a header name or value that arrives when no header slot is left
HeaderByteBeyondMaximum(p) ==
    /\ p.before.headersCount = REQUEST_MAX_HEADERS
    /\ \/ p.before.state = "HeaderName" /\ p.byte \notin {COLON, CR}
       \/ p.before.state = "HeaderValue" /\ p.byte # CR

StoredNowhere(p) ==
    /\ p.after.headersStringPool = p.before.headersStringPool
    /\ p.after.headersStringPoolOffset = p.before.headersStringPoolOffset
    /\ p.after.headers = p.before.headers
    /\ p.after.headersCount = p.before.headersCount

CommitRule(p) ==
    /\ p.after.headersCount <= REQUEST_MAX_HEADERS
    /\ p.after.headersCount =
          p.before.headersCount + (IF Commits(p) THEN 1 ELSE 0)

C12_HeaderCommitAndDrop ==
    \A k \in 1..Len(ParseTrace) :
        LET p == ParseTrace[k]
        IN  /\ CommitRule(p)
            /\ HeaderByteBeyondMaximum(p) =>
                  StoredNowhere(p) /\ p.after.warnings.headersTooManyDropped

\* the part of C12 the code keeps: the count, the commit, bytes beyond the
\* maximum stored nowhere, and the flag for bytes of a header name
C12_CommitAndNameDrop ==
    \A k \in 1..Len(ParseTrace) :
        LET p == ParseTrace[k]
        IN  /\ CommitRule(p)
            /\ HeaderByteBeyondMaximum(p) =>
                  /\ StoredNowhere(p)
                  /\ p.before.state = "HeaderName" =>
                        p.after.warnings.headersTooManyDropped

C12_KeptWitness ==
    /\ request.state = "Done"
    /\ request.headersCount = REQUEST_MAX_HEADERS
    /\ request.warnings.headersTooManyDropped


(***************************************************************************)
(* C13: at the LF that ends the header block, Content-Length is looked up  *)
(* without regard to case.  Present with a value that parses as an         *)
(* integer N >= 0: the state becomes Body with room for                    *)
(* min(N, REQUEST_MAX_BODY_LENGTH) bytes.  Absent, or a value that does    *)
(* not parse as an integer >= 0: the state becomes Done and no body is     *)
(* allocated.                                                              *)
(***************************************************************************)
EndsHeaderBlock(p) ==
    /\ p.before.state = "CRLFCR"
    /\ p.byte = LF
    /\ ~headerInRequest(ContentLengthName, p.before).fault

\* [present, parses, n]: the header as the client sent it
ContentLengthOf(r) ==
    LET found == headerInRequest(ContentLengthName, r)
    IN  IF found.index < 0 THEN [present |-> FALSE, parses |-> FALSE, n |-> 0]
        ELSE LET scanned == ScanLong(HeaderValueStr(r, found.index))
             IN  [present |-> TRUE, parses |-> scanned.items = 1, n |-> scanned.value]

BodyOf(p, n) ==
    /\ p.after.state = "Body"
    /\ p.after.body.capacity = Min(n, REQUEST_MAX_BODY_LENGTH)
    /\ p.after.body.length = 0
    /\ p.after.body.capacity > 0 =>
          /\ p.after.body.allocated
          /\ Len(p.after.body.contents) >= p.after.body.capacity

NoBody(p) == p.after.state = "Done" /\ ~p.after.body.allocated

C13_ContentLengthLookup ==
    \A k \in 1..Len(ParseTrace) :
        LET p == ParseTrace[k]
            cl == ContentLengthOf(p.before)
        IN  EndsHeaderBlock(p) =>
                IF cl.present /\ cl.parses /\ cl.n >= 0
                THEN BodyOf(p, cl.n)
                ELSE NoBody(p)

\* what the code does: a value that parses as a negative integer is taken as 0
C13_NegativeLengthTakenAsZero ==
    \A k \in 1..Len(ParseTrace) :
        LET p == ParseTrace[k]
            cl == ContentLengthOf(p.before)
        IN  EndsHeaderBlock(p) =>
                IF cl.present /\ cl.parses
                THEN BodyOf(p, IF cl.n < 0 THEN 0 ELSE cl.n)
                ELSE NoBody(p)

C13_ClampedWitness ==
    /\ Len(ParseTrace) > 0
    /\ LET p == ParseTrace[Len(ParseTrace)]
       IN  /\ EndsHeaderBlock(p)
           /\ ContentLengthOf(p.before).n > REQUEST_MAX_BODY_LENGTH
           /\ p.after.body.capacity = REQUEST_MAX_BODY_LENGTH


(***************************************************************************)
(* pathEscapesDocumentRoot, called on every path of up to MaxPathLen bytes *)
(* over '/', '\', '.' and 'a'.                                             *)
(***************************************************************************)
MaxPathLen == 6
SLASH == 47
BACKSLASH == 92
DOT == 46

\* the loop from index k (1-based) with the locals subdirDepth, state, isFirstChar
RECURSIVE PathWalk(_, _, _, _, _)
PathWalk(path, k, subdirDepth, state, isFirstChar) ==
    IF k > Len(path) THEN subdirDepth
    ELSE LET c == path[k]
         IN  CASE state = "Normal" ->
                    IF c = SLASH \/ c = BACKSLASH
                    THEN PathWalk(path, k + 1, subdirDepth, "Sep", FALSE)
                    ELSE IF isFirstChar /\ c = DOT
                    THEN PathWalk(path, k + 1, subdirDepth, "Dot", FALSE)
                    ELSE IF isFirstChar
                    THEN PathWalk(path, k + 1, subdirDepth + 1, "Normal", FALSE)
                    ELSE PathWalk(path, k + 1, subdirDepth, "Normal", FALSE)
               [] state = "Sep" ->
                    IF c = DOT
                    THEN PathWalk(path, k + 1, subdirDepth, "Dot", isFirstChar)
                    ELSE IF c # SLASH /\ c # BACKSLASH
                    THEN PathWalk(path, k + 1, subdirDepth + 1, "Normal", isFirstChar)
                    ELSE PathWalk(path, k + 1, subdirDepth, "Sep", isFirstChar)
               [] OTHER ->
                    IF c = SLASH
                    THEN PathWalk(path, k + 1, subdirDepth, "Sep", isFirstChar)
                    ELSE IF c = DOT
                    THEN PathWalk(path, k + 1, subdirDepth - 1, "Normal", isFirstChar)
                    ELSE PathWalk(path, k + 1, subdirDepth, "Normal", isFirstChar)

pathEscapesDocumentRoot(path) == PathWalk(path, 1, 0, "Normal", TRUE) < 0

Paths == UNION {[1..n -> {SLASH, BACKSLASH, DOT, 97}] : n \in 0..MaxPathLen}

PathInit ==
    /\ stream = <<>>
    /\ pos = 0
    /\ request = ZeroRequest
    /\ boundaryReplay = FALSE
    /\ conn = ConnStart
    /\ ServerStart
    /\ call \in {[fn |-> "pathEscapesDocumentRoot", arg |-> path,
                  pc |-> "called", result |-> <<>>] : path \in Paths}

CallPathEscapesDocumentRoot ==
    /\ call.fn = "pathEscapesDocumentRoot"
    /\ call.pc = "called"
    /\ call' = [call EXCEPT !.pc = "returned",
                            !.result = pathEscapesDocumentRoot(call.arg)]
    /\ UNCHANGED <<connVars, serverVars>>

SpecPath == PathInit /\ [][CallPathEscapesDocumentRoot]_vars

\* the segments of a path between its '/' separators
RECURSIVE Segments(_)
Segments(path) ==
    LET first == UpTo(path, SLASH)
    IN  IF Len(first) = Len(path) THEN <<first>>
        ELSE <<first>> \o Segments(SubSeq(path, Len(first) + 2, Len(path)))

IsParent(seg) == seg = <<DOT, DOT>>
IsOrdinary(seg) == seg # <<>> /\ seg # <<DOT>> /\ seg # <<DOT, DOT>>

SegmentDepth(seg) == IF IsParent(seg) THEN -1 ELSE IF IsOrdinary(seg) THEN 1 ELSE 0

\* the depth after the first n segments
RECURSIVE DepthAfter(_, _)
DepthAfter(segs, n) ==
    IF n = 0 THEN 0 ELSE DepthAfter(segs, n - 1) + SegmentDepth(segs[n])

GoesBelowRoot(path) ==
    LET segs == Segments(path)
    IN  \E n \in 1..Len(segs) : DepthAfter(segs, n) < 0

EndsBelowRoot(path) ==
    LET segs == Segments(path)
    IN  DepthAfter(segs, Len(segs)) < 0

PathReturned ==
    /\ call.fn = "pathEscapesDocumentRoot"
    /\ call.pc = "returned"
    /\ \A k \in 1..Len(call.arg) : call.arg[k] # BACKSLASH

\* no ordinary segment of the path begins with '.'
PlainNames(path) ==
    LET segs == Segments(path)
    IN  \A n \in 1..Len(segs) : IsOrdinary(segs[n]) => segs[n][1] # DOT

(***************************************************************************)
(* C14: pathEscapesDocumentRoot returns true for every path whose depth    *)
(* (up one per ordinary segment, down one per '..' segment) is negative    *)
(* after some prefix of its segments, whatever comes later.                *)
(***************************************************************************)
C14_RefusesWhenDepthGoesNegative ==
    (PathReturned /\ PlainNames(call.arg) /\ GoesBelowRoot(call.arg)) =>
        call.result = TRUE

(***************************************************************************)
(* C15: for a path of '.', '..' and ordinary segments joined by one or     *)
(* more '/', pathEscapesDocumentRoot returns true exactly when the path    *)
(* has more '..' segments than ordinary segments.                          *)
(***************************************************************************)
C15_TrueExactlyWhenMoreParents ==
    PathReturned => (call.result = EndsBelowRoot(call.arg))

\* the same for paths in which no ordinary segment begins with '.'
C15_PlainNamesMoreParents ==
    (PathReturned /\ PlainNames(call.arg)) => (call.result = EndsBelowRoot(call.arg))

\* "a/../." stays inside the root
C15_PlainWitness ==
    /\ PathReturned
    /\ call.arg = <<97, SLASH, DOT, DOT, SLASH, DOT>>
    /\ call.result = FALSE


(***************************************************************************)
(* The Response construction helpers.  A char* argument is <<>> for NULL   *)
(* and <<text>> otherwise; a body is the sequence of the texts it was      *)
(* built from (a format and its argument for responseAllocWithFormat).     *)
(***************************************************************************)
Null == <<>>

responseAlloc(code, status, contentType, bodyCapacity) ==
    [code |-> code,
     status |-> status,
     contentType |-> contentType,
     body |-> <<>>,
     filenameToSend |-> Null]

responseAllocHTMLWithStatus(code, status, html) ==
    [responseAlloc(200, "OK", "text/html; charset=UTF-8", 0) EXCEPT !.body = <<html>>]

responseAllocHTML(html) == responseAllocHTMLWithStatus(200, "OK", html)

responseAllocJSONWithStatus(code, status, json) ==
    [responseAlloc(200, "OK", "application/json", 0) EXCEPT !.body = <<json>>]

responseAllocWithFormat(code, status, contentType, format, argument) ==
    [responseAlloc(code, status, contentType, 0) EXCEPT !.body = <<format, argument>>]

responseAllocWithFile(filename, MIMETypeOrNULL) ==
    [responseAlloc(200, "OK", MIMETypeOrNULL, 0) EXCEPT !.filenameToSend = filename]

responseAlloc400BadRequestHTML(errorMessage) ==
    responseAllocWithFormat(400, "Bad Request", "text/html; charset=UTF-8",
        "400 - Bad Request: The request made was invalid. %s",
        IF errorMessage = Null THEN <<"An unspecified error occurred">> ELSE errorMessage)

responseAlloc404NotFoundHTML(resourcePathOrNull) ==
    IF resourcePathOrNull = Null
    THEN responseAllocHTMLWithStatus(404, "Not Found",
             <<"404 Not Found: The resource you specified could not be found">>)
    ELSE responseAllocWithFormat(404, "Not Found", "text/html; charset=UTF-8",
             "404 Not Found: The resource you specified ('%s') could not be found",
             resourcePathOrNull)

responseAlloc500InternalErrorHTML(extraInformationOrNull) ==
    IF extraInformationOrNull = Null
    THEN responseAllocHTMLWithStatus(500, "Internal Error",
             <<"500 Internal Error: There was an internal error while completing your request">>)
    ELSE responseAllocWithFormat(500, "Internal Error", "text/html; charset=UTF-8",
             "500 Internal Error: There was an internal error while completing your request. %s",
             extraInformationOrNull)

\* strEndsWith(filePath.contents, "/"): the trailing '/' is cut
FilePath(documentRoot, requestPathDecoded) ==
    LET joined == documentRoot \o requestPathDecoded
    IN  IF joined # <<>> /\ joined[Len(joined)] = SLASH
        THEN SubSeq(joined, 1, Len(joined) - 1)
        ELSE joined

\* responseAllocServeFileFromRequestPath.  fs is what the file system
\* answers: pathInformationGet on the path and on its index.html ("fails",
\* "missing", "file", "directory") and whether opendir succeeds.  The result
\* carries the file system calls that were made.
responseAllocServeFileFromRequestPath(requestPath, requestPathDecoded, documentRoot, fs, OptionListDirectoryContents) ==
    LET filePath == FilePath(documentRoot, requestPathDecoded)
        indexFilePath == filePath \o <<SLASH, 105>>
        stat == <<[op |-> "pathInformationGet", path |-> filePath]>>
        statIndex == stat \o <<[op |-> "pathInformationGet", path |-> indexFilePath]>>
        listing == statIndex \o <<[op |-> "opendir", path |-> filePath]>>
    IN  IF pathEscapesDocumentRoot(requestPathDecoded)
        THEN [response |-> responseAllocHTMLWithStatus(403, "Forbidden",
                               <<"Forbidden: You are not allowed to access this URL">>),
              fileSystemCalls |-> <<>>]
        ELSE IF fs.path = "fails"
        THEN [response |-> responseAlloc500InternalErrorHTML(
                               <<"Information about the path could not be determined for your request">>),
              fileSystemCalls |-> stat]
        ELSE IF fs.path = "missing"
        THEN [response |-> responseAlloc404NotFoundHTML(<<filePath>>),
              fileSystemCalls |-> stat]
        ELSE IF fs.path = "file"
        THEN [response |-> responseAllocWithFile(<<filePath>>, Null),
              fileSystemCalls |-> stat]
        ELSE IF ~OptionListDirectoryContents
        THEN [response |-> responseAllocHTMLWithStatus(403, "Forbidden",
                               <<"403 - Forbidden: You are forbidden from accessing this URL.">>),
              fileSystemCalls |-> stat]
        ELSE IF fs.index = "fails"
        THEN [response |-> responseAlloc500InternalErrorHTML(
                               <<"Information about the path could not be determined for your request">>),
              fileSystemCalls |-> statIndex]
        ELSE IF fs.index = "file"
        THEN [response |-> responseAllocWithFile(<<indexFilePath>>, Null),
              fileSystemCalls |-> statIndex]
        ELSE IF ~fs.opendir
        THEN [response |-> responseAlloc500InternalErrorHTML(
                               <<"We could not open the directory for iterating">>),
              fileSystemCalls |-> listing]
        ELSE [response |-> [responseAllocHTML(<<"Directory Reading">>) EXCEPT
                               !.body = @ \o <<<<"entries of", requestPath>>>>],
              fileSystemCalls |-> listing]

(***************************************************************************)
(* The helpers called with every code and status of a small list, with a   *)
(* text or NULL, and responseAllocServeFileFromRequestPath with every path *)
(* and every answer of the file system.                                    *)
(***************************************************************************)
Codes == {200, 201, 301, 400, 403, 404, 500, 503}
Statuses == {"OK", "Created", "Moved Permanently", "Bad Request", "Forbidden",
             "Not Found", "Internal Error", "Service Unavailable"}
Texts == {<<"">>, <<"some text">>}
StatusHelpers == {"responseAllocHTMLWithStatus", "responseAllocJSONWithStatus"}
ErrorHelpers == {"responseAlloc400BadRequestHTML", "responseAlloc404NotFoundHTML",
                 "responseAlloc500InternalErrorHTML"}
FileSystemAnswers ==
    [path : {"fails", "missing", "file", "directory"},
     index : {"fails", "missing", "file", "directory"},
     opendir : BOOLEAN]

\* "r"
DocumentRoot == <<114>>

HelperCalls ==
    {[fn |-> fn, arg |-> [code |-> code, status |-> status, text |-> text],
      pc |-> "called", result |-> <<>>] :
         fn \in StatusHelpers, code \in Codes, status \in Statuses, text \in Texts}
    \cup {[fn |-> fn, arg |-> text, pc |-> "called", result |-> <<>>] :
             fn \in ErrorHelpers, text \in Texts \cup {Null}}
    \cup {[fn |-> "responseAllocServeFileFromRequestPath", arg |-> path,
           pc |-> "called", result |-> <<>>] : path \in Paths}

ResponseInit ==
    /\ stream = <<>>
    /\ pos = 0
    /\ request = ZeroRequest
    /\ boundaryReplay = FALSE
    /\ conn = ConnStart
    /\ ServerStart
    /\ call \in HelperCalls

CallStatusHelper ==
    /\ call.pc = "called"
    /\ call.fn \in StatusHelpers
    /\ call' = [call EXCEPT
                  !.pc = "returned",
                  !.result =
                      IF call.fn = "responseAllocHTMLWithStatus"
                      THEN responseAllocHTMLWithStatus(call.arg.code, call.arg.status,
                                                       call.arg.text)
                      ELSE responseAllocJSONWithStatus(call.arg.code, call.arg.status,
                                                       call.arg.text)]
    /\ UNCHANGED <<connVars, serverVars>>

CallErrorHelper ==
    /\ call.pc = "called"
    /\ call.fn \in ErrorHelpers
    /\ call' = [call EXCEPT
                  !.pc = "returned",
                  !.result =
                      CASE call.fn = "responseAlloc400BadRequestHTML" ->
                               responseAlloc400BadRequestHTML(call.arg)
                        [] call.fn = "responseAlloc404NotFoundHTML" ->
                               responseAlloc404NotFoundHTML(call.arg)
                        [] OTHER -> responseAlloc500InternalErrorHTML(call.arg)]
    /\ UNCHANGED <<connVars, serverVars>>

CallServeFile(fs, OptionListDirectoryContents) ==
    /\ call.pc = "called"
    /\ call.fn = "responseAllocServeFileFromRequestPath"
    /\ call' = [call EXCEPT
                  !.pc = "returned",
                  !.result = responseAllocServeFileFromRequestPath(
                                 call.arg, call.arg, DocumentRoot, fs,
                                 OptionListDirectoryContents)]
    /\ UNCHANGED <<connVars, serverVars>>

ResponseNext ==
    \/ CallStatusHelper
    \/ CallErrorHelper
    \/ \E fs \in FileSystemAnswers, OptionListDirectoryContents \in BOOLEAN :
          CallServeFile(fs, OptionListDirectoryContents)

SpecResponse == ResponseInit /\ [][ResponseNext]_vars

(***************************************************************************)
(* C16: for a decoded path that pathEscapesDocumentRoot refuses,           *)
(* responseAllocServeFileFromRequestPath returns a Response with code 403  *)
(* and status "Forbidden" and makes no call to the file system.            *)
(***************************************************************************)
ServeFileReturned ==
    /\ call.fn = "responseAllocServeFileFromRequestPath"
    /\ call.pc = "returned"

C16_EscapingPathGets403 ==
    (ServeFileReturned /\ pathEscapesDocumentRoot(call.arg)) =>
        /\ call.result.response.code = 403
        /\ call.result.response.status = "Forbidden"
        /\ call.result.fileSystemCalls = <<>>

\* the part of C16 the code keeps: no call to the file system, no file name
\* to send, and the body of the Forbidden page
C16_EscapingPathTouchesNoFile ==
    (ServeFileReturned /\ pathEscapesDocumentRoot(call.arg)) =>
        /\ call.result.fileSystemCalls = <<>>
        /\ call.result.response.filenameToSend = Null
        /\ call.result.response.body =
              <<<<"Forbidden: You are not allowed to access this URL">>>>

(***************************************************************************)
(* C17: responseAllocHTMLWithStatus and responseAllocJSONWithStatus return *)
(* a Response with the code and the status they were given, and the 400,   *)
(* 404 and 500 helpers return those codes for every argument, NULL         *)
(* included.                                                               *)
(***************************************************************************)
C17_HelpersCarryTheirStatus ==
    call.pc = "returned" =>
        /\ call.fn \in StatusHelpers =>
              /\ call.result.code = call.arg.code
              /\ call.result.status = call.arg.status
        /\ call.fn = "responseAlloc400BadRequestHTML" => call.result.code = 400
        /\ call.fn = "responseAlloc404NotFoundHTML" => call.result.code = 404
        /\ call.fn = "responseAlloc500InternalErrorHTML" => call.result.code = 500

\* the part of C17 the code keeps: the 400 helper, and the 404 and 500
\* helpers with an argument that is not NULL
C17_FormattedHelpersCarryTheirStatus ==
    call.pc = "returned" =>
        /\ call.fn = "responseAlloc400BadRequestHTML" =>
              call.result.code = 400 /\ call.result.status = "Bad Request"
        /\ (call.fn = "responseAlloc404NotFoundHTML" /\ call.arg # Null) =>
              call.result.code = 404 /\ call.result.status = "Not Found"
        /\ (call.fn = "responseAlloc500InternalErrorHTML" /\ call.arg # Null) =>
              call.result.code = 500 /\ call.result.status = "Internal Error"


(***************************************************************************)
(* struct HeapString.  allocated is contents != NULL, and contents then    *)
(* holds the capacity bytes of the allocation; allocations counts the      *)
(* calls of realloc; fault records that realloc returned NULL and memset   *)
(* wrote through it, after which nothing runs.  size_t arithmetic wraps    *)
(* modulo 2^SizeBits.                                                      *)
(***************************************************************************)
MinimumAllocation == 256

\* heapStringInit
heapStringInit ==
    [allocated |-> FALSE, contents |-> <<>>, length |-> 0, capacity |-> 0,
     allocations |-> 0, fault |-> "none"]

\* heapStringNextAllocationSize: the loop from powerOf2.  powerOf2 *= 2 wraps
\* to 0 once the top bit is passed, and 0 < required holds from then on.
RECURSIVE NextAllocationLoop(_, _)
NextAllocationLoop(powerOf2, required) ==
    IF ~(powerOf2 < required) THEN [returns |-> TRUE, value |-> powerOf2]
    ELSE IF (powerOf2 * 2) % SizeModulus = 0 THEN [returns |-> FALSE, value |-> 0]
    ELSE NextAllocationLoop((powerOf2 * 2) % SizeModulus, required)

heapStringNextAllocationSize(required) ==
    NextAllocationLoop(MinimumAllocation, required)

\* a test that lets the string and its terminator outgrow the allocation by
\* one byte
GrowthNeededBeyondCapacity(minimumCapacity, capacity) ==
    ~(minimumCapacity <= capacity + 1)

\* if (minimumCapacity <= string->capacity) return;
GrowthNeeded(minimumCapacity, capacity) == ~(minimumCapacity <= capacity)

\* heapStringReallocIfNeeded; reallocOk is whether realloc returns memory
heapStringReallocIfNeeded(string, minimumCapacity, reallocOk) ==
    IF ~GrowthNeeded(minimumCapacity, string.capacity) THEN string
    ELSE LET next == heapStringNextAllocationSize(minimumCapacity)
         IN  IF ~next.returns THEN [string EXCEPT !.fault = "no return"]
             ELSE IF ~reallocOk
             THEN [string EXCEPT !.capacity = next.value, !.allocated = FALSE,
                                 !.contents = <<>>, !.allocations = @ + 1,
                                 !.fault = "memset through NULL"]
             ELSE [string EXCEPT
                     !.capacity = next.value,
                     !.allocated = TRUE,
                     !.allocations = @ + 1,
                     !.contents =
                         [k \in 1..next.value |->
                             IF k <= string.length THEN string.contents[k] ELSE NUL]]

\* memcpy(&string->contents[at], bytes, Len(bytes)) and
\* string->contents[end] = '\0', for a string that has its allocation
StoreAt(string, at, bytes, end) ==
    IF string.fault # "none" THEN string
    ELSE IF ~string.allocated
    THEN [string EXCEPT !.fault = "write through NULL contents"]
    ELSE IF end >= string.capacity
    THEN [string EXCEPT !.fault = "write past the allocation"]
    ELSE [string EXCEPT
            !.length = end,
            !.contents =
                [k \in 1..string.capacity |->
                    IF k > at /\ k <= at + Len(bytes) THEN bytes[k - at]
                    ELSE IF k = end + 1 THEN NUL
                    ELSE string.contents[k]]]

heapStringAppendChar(string, c, reallocOk) ==
    LET grown == heapStringReallocIfNeeded(string, (string.length + 2) % SizeModulus,
                                           reallocOk)
    IN  StoreAt(grown, string.length, <<c>>, string.length + 1)

heapStringSetToCString(heapString, cString, reallocOk) ==
    LET cStringLength == Len(cString)
        grown == heapStringReallocIfNeeded(heapString, (cStringLength + 1) % SizeModulus,
                                           reallocOk)
    IN  StoreAt(grown, 0, cString, cStringLength)

heapStringAppendString(string, stringToAppend, reallocOk) ==
    LET stringToAppendLength == Len(stringToAppend)
        requiredCapacity == (stringToAppendLength + string.length + 1) % SizeModulus
        grown == heapStringReallocIfNeeded(string, requiredCapacity, reallocOk)
    IN  IF 0 = stringToAppendLength THEN string
        ELSE StoreAt(grown, string.length, stringToAppend,
                     string.length + stringToAppendLength)

\* source is the bytes source->contents[0 .. source->length - 1]
heapStringAppendHeapString(target, source, reallocOk) ==
    LET grown == heapStringReallocIfNeeded(
                     target, (target.length + Len(source) + 1) % SizeModulus, reallocOk)
    IN  StoreAt(grown, target.length, source, target.length + Len(source))

\* formatted is what vsnprintf prints for the format and its arguments
heapStringAppendFormatV(string, formatted, reallocOk) ==
    LET appendLength == Len(formatted)
        requiredCapacity == (string.length + appendLength + 1) % SizeModulus
        grown == heapStringReallocIfNeeded(string, requiredCapacity, reallocOk)
    IN  StoreAt(grown, string.length, formatted, string.length + appendLength)

heapStringAppendFormat(string, formatted, reallocOk) ==
    heapStringAppendFormatV(string, formatted, reallocOk)

(***************************************************************************)
(* A heap string after heapStringInit and up to MaxHeapCalls calls: the    *)
(* texts have 0, 1, 2 or MaxTextLength bytes, a source heap string holds   *)
(* one of the texts or is itself fresh from heapStringInit, and the        *)
(* character appended is 'a' or 0.                                         *)
(***************************************************************************)
MaxHeapCalls == 3
MaxTextLength == 255

HeapTexts == {Field(97, n) : n \in {0, 1, 2}} \cup {[k \in 1..MaxTextLength |-> 98]}

HeapOperations ==
    {"heapStringSetToCString", "heapStringAppendChar", "heapStringAppendString",
     "heapStringAppendFormat", "heapStringAppendHeapString"}

HeapInit ==
    /\ stream = <<>>
    /\ pos = 0
    /\ request = ZeroRequest
    /\ boundaryReplay = FALSE
    /\ conn = ConnStart
    /\ ServerStart
    /\ call = [fn |-> "heapStringInit", arg |-> <<>>, pc |-> "returned",
               result |-> heapStringInit, calls |-> 0]

\* the string is in use: no call has ended the process
HeapRuns ==
    /\ call.fn \in HeapOperations \cup {"heapStringInit"}
    /\ call.result.fault = "none"
    /\ call.calls < MaxHeapCalls

HeapCalled(fn, arg, result) ==
    [fn |-> fn, arg |-> arg, pc |-> "returned", result |-> result,
     calls |-> call.calls + 1]

CallSetToCString(cString, reallocOk) ==
    /\ HeapRuns
    /\ call' = HeapCalled("heapStringSetToCString", cString,
                          heapStringSetToCString(call.result, cString, reallocOk))
    /\ UNCHANGED <<connVars, serverVars>>

CallAppendChar(c, reallocOk) ==
    /\ HeapRuns
    /\ call' = HeapCalled("heapStringAppendChar", <<c>>,
                          heapStringAppendChar(call.result, c, reallocOk))
    /\ UNCHANGED <<connVars, serverVars>>

CallAppendString(stringToAppend, reallocOk) ==
    /\ HeapRuns
    /\ call' = HeapCalled("heapStringAppendString", stringToAppend,
                          heapStringAppendString(call.result, stringToAppend, reallocOk))
    /\ UNCHANGED <<connVars, serverVars>>

CallAppendFormat(formatted, reallocOk) ==
    /\ HeapRuns
    /\ call' = HeapCalled("heapStringAppendFormat", formatted,
                          heapStringAppendFormat(call.result, formatted, reallocOk))
    /\ UNCHANGED <<connVars, serverVars>>

CallAppendHeapString(source, reallocOk) ==
    /\ HeapRuns
    /\ call' = HeapCalled("heapStringAppendHeapString", source,
                          heapStringAppendHeapString(call.result, source, reallocOk))
    /\ UNCHANGED <<connVars, serverVars>>

HeapNext ==
    \E reallocOk \in BOOLEAN :
        \/ \E cString \in HeapTexts : CallSetToCString(cString, reallocOk)
        \/ \E c \in {97, NUL} : CallAppendChar(c, reallocOk)
        \/ \E stringToAppend \in HeapTexts : CallAppendString(stringToAppend, reallocOk)
        \/ \E formatted \in HeapTexts : CallAppendFormat(formatted, reallocOk)
        \/ \E source \in HeapTexts : CallAppendHeapString(source, reallocOk)

SpecHeap == HeapInit /\ [][HeapNext]_vars

(***************************************************************************)
(* C21: after heapStringInit and any sequence of heapStringSetToCString,   *)
(* heapStringAppendChar, heapStringAppendString, heapStringAppendFormat    *)
(* and heapStringAppendHeapString calls that returned, the string is       *)
(* either unallocated with length 0 and capacity 0, or its capacity is     *)
(* greater than its length and the byte at index length is 0.  No call     *)
(* writes outside the allocation; a call does not return only when realloc *)
(* gave no memory.                                                         *)
(***************************************************************************)
HeapReturned ==
    /\ call.fn \in HeapOperations \cup {"heapStringInit"}
    /\ call.result.fault = "none"

C21_HeapStringInvariant ==
    /\ call.fn \in HeapOperations =>
           call.result.fault \in {"none", "memset through NULL"}
    /\ HeapReturned =>
        LET string == call.result
        IN  \/ /\ ~string.allocated
               /\ string.length = 0
               /\ string.capacity = 0
            \/ /\ string.allocated
               /\ Len(string.contents) = string.capacity
               /\ string.capacity > string.length
               /\ string.contents[string.length + 1] = NUL

\* the string has grown past its first allocation and holds exactly
\* MaxTextLength + 2 bytes
C21_Witness ==
    /\ HeapReturned
    /\ call.calls = 3
    /\ call.result.length = MaxTextLength + 2
    /\ call.result.capacity = 2 * MinimumAllocation
    /\ call.result.allocations = 2

(***************************************************************************)
(* heapStringNextAllocationSize called with every size_t value.            *)
(***************************************************************************)
GrowthInit ==
    /\ stream = <<>>
    /\ pos = 0
    /\ request = ZeroRequest
    /\ boundaryReplay = FALSE
    /\ conn = ConnStart
    /\ ServerStart
    /\ call \in {[fn |-> "heapStringNextAllocationSize", arg |-> required,
                  pc |-> "called", result |-> [returns |-> FALSE, value |-> 0]] :
                     required \in 0..(SizeModulus - 1)}

CallNextAllocationSize ==
    /\ call.fn = "heapStringNextAllocationSize"
    /\ call.pc = "called"
    /\ call' = [call EXCEPT !.pc = "ended",
                            !.result = heapStringNextAllocationSize(call.arg)]
    /\ UNCHANGED <<connVars, serverVars>>

SpecGrowth == GrowthInit /\ [][CallNextAllocationSize]_vars

\* the smallest power of two that is at least n, for n <= 2^SizeBits
SmallestPowerOfTwoAtLeast(n) ==
    LET powers == {2 ^ k : k \in 0..SizeBits}
    IN  CHOOSE p \in powers : p >= n /\ \A q \in powers : q >= n => p <= q

Max(a, b) == IF a > b THEN a ELSE b

(***************************************************************************)
(* C29: for every required size representable in size_t,                   *)
(* heapStringNextAllocationSize returns, and what it returns is the        *)
(* smallest power of two that is at least max(256, required).              *)
(***************************************************************************)
NextAllocationSizeEnded ==
    call.fn = "heapStringNextAllocationSize" /\ call.pc = "ended"

C29_NextAllocationSizeIsNextPowerOfTwo ==
    NextAllocationSizeEnded =>
        /\ call.result.returns
        /\ call.result.value =
              SmallestPowerOfTwoAtLeast(Max(MinimumAllocation, call.arg))

\* the same for a required size up to the largest power of two in size_t
C29_NextPowerOfTwoUpToTopBit ==
    (NextAllocationSizeEnded /\ call.arg <= 2 ^ (SizeBits - 1)) =>
        C29_NextAllocationSizeIsNextPowerOfTwo

\* heapStringReallocIfNeeded changes the capacity only when more is required
\* than the string has, and then to the value of heapStringNextAllocationSize
C29_CapacityChangesOnlyToGrow ==
    [][(HeapRuns /\ call'.result.capacity # call.result.capacity) =>
          /\ call'.result.capacity > call.result.capacity
          /\ call'.result.capacity >= MinimumAllocation
          /\ \E k \in 0..SizeBits : call'.result.capacity = 2 ^ k
          /\ call'.result.fault = "none" =>
                /\ call'.result.length + 1 > call.result.capacity
                /\ call'.result.capacity =
                      SmallestPowerOfTwoAtLeast(
                          Max(MinimumAllocation, call'.result.length + 1))]_vars

(***************************************************************************)
(* C30: heapStringAppendString with an empty string,                       *)
(* heapStringAppendHeapString with an empty source and                     *)
(* heapStringAppendFormat that prints no character leave length, capacity  *)
(* and contents as they were and allocate nothing, on a freshly            *)
(* initialised string too.                                                 *)
(***************************************************************************)
EmptyAppend ==
    /\ HeapRuns
    /\ call'.fn \in {"heapStringAppendString", "heapStringAppendHeapString",
                     "heapStringAppendFormat"}
    /\ call'.arg = <<>>

C30_EmptyAppendIsNoOp ==
    [][EmptyAppend => call'.result = call.result]_vars

\* the same for a string that has its allocation, and for
\* heapStringAppendString on every string
C30_EmptyAppendToAllocatedIsNoOp ==
    [][(EmptyAppend /\ (call.result.allocated \/ call'.fn = "heapStringAppendString"))
          => call'.result = call.result]_vars

(***************************************************************************)
(* strdupDecodeGETorPOSTParam.  A char* is <<>> for NULL and <<bytes>> for *)
(* the C string of those bytes.                                            *)
(***************************************************************************)
EQUALS == 61

\* the bytes of a buffer up to its first NUL: what the caller reads from the
\* char* it is given
RECURSIVE CStringOf(_)
CStringOf(bytes) ==
    IF bytes = <<>> \/ bytes[1] = NUL THEN <<>>
    ELSE <<bytes[1]>> \o CStringOf(Tail(bytes))

\* strstr(haystack, needle): the offset of the first occurrence, -1 for NULL
strstr(haystack, needle) ==
    LET found == {k \in 0..(Len(haystack) - Len(needle)) :
                     SubSeq(haystack, k + 1, k + Len(needle)) = needle}
    IN  IF found = {} THEN NullPtr
        ELSE CHOOSE k \in found : \A j \in found : k <= j

strdupDecodeGETorPOSTParam(paramNameIncludingEquals, paramString, valueIfNotFound) ==
    IF paramString = Null THEN valueIfNotFound
    ELSE LET nameStart == strstr(paramString[1], paramNameIncludingEquals)
             fromName == SubSeq(paramString[1], nameStart + 1, Len(paramString[1]))
             equalsAt == strstr(fromName, <<EQUALS>>)
             paramStart == SubSeq(fromName, equalsAt + 2, Len(fromName))
             maximumPossibleLength == Len(paramStart)
         IN  IF nameStart = NullPtr THEN valueIfNotFound
             ELSE IF equalsAt = NullPtr THEN valueIfNotFound
             ELSE IF paramStart = <<>> THEN <<(<<>>)>>
             ELSE <<CStringOf(URLDecode(paramStart, maximumPossibleLength + 1,
                                        "Parameter"))>>

(***************************************************************************)
(* Standard form encoding of a payload: a space is written '+' or "%20",   *)
(* a letter or digit may be written as it is, and every byte may be        *)
(* written '%' and its two hex digits, in capitals or not.                 *)
(***************************************************************************)
MaxPayloadLength == 2

HexDigit(v, capitals) ==
    IF v < 10 THEN 48 + v
    ELSE IF capitals THEN 65 + (v - 10) ELSE 97 + (v - 10)

PercentEncoded(b, capitals) ==
    <<PERCENT, HexDigit(b \div 16, capitals), HexDigit(b % 16, capitals)>>

IsAlnum(b) == b \in (48..57) \cup (65..90) \cup (97..122)

EncodingsOfByte(b) ==
    {PercentEncoded(b, TRUE), PercentEncoded(b, FALSE)}
    \cup (IF b = SP THEN {<<PLUS>>} ELSE {})
    \cup (IF IsAlnum(b) THEN {<<b>>} ELSE {})

RECURSIVE FormEncodings(_)
FormEncodings(payload) ==
    IF payload = <<>> THEN {<<>>}
    ELSE {first \o rest : first \in EncodingsOfByte(payload[1]),
                          rest \in FormEncodings(Tail(payload))}

\* NUL, LF, space, '%', '+', '=', 'a', 0xAB and 0xFF
PayloadBytes == {NUL, LF, SP, PERCENT, PLUS, EQUALS, 97, 171, 255}

RECURSIVE SequencesUpTo(_, _)
SequencesUpTo(bytes, n) ==
    IF n = 0 THEN {<<>>}
    ELSE LET shorter == SequencesUpTo(bytes, n - 1)
         IN  shorter \cup {Append(q, b) : q \in shorter, b \in bytes}

Payloads == SequencesUpTo(PayloadBytes, MaxPayloadLength)

\* "p="
ParamName == <<112, EQUALS>>

\* what follows the parameter in the string: nothing, or "&n=1"
ParamTails == {<<>>, <<AMPERSAND, 110, EQUALS, 49>>}

ParamInit ==
    /\ stream = <<>>
    /\ pos = 0
    /\ request = ZeroRequest
    /\ boundaryReplay = FALSE
    /\ conn = ConnStart
    /\ ServerStart
    /\ \E payload \in Payloads :
          \E encoded \in FormEncodings(payload), tail \in ParamTails :
             call = [fn |-> "strdupDecodeGETorPOSTParam",
                     arg |-> [payload |-> payload,
                              paramString |-> ParamName \o encoded \o tail],
                     pc |-> "called", result |-> Null]

CallDecodeParam ==
    /\ call.fn = "strdupDecodeGETorPOSTParam"
    /\ call.pc = "called"
    /\ call' = [call EXCEPT
                  !.pc = "returned",
                  !.result = strdupDecodeGETorPOSTParam(
                                 ParamName, <<call.arg.paramString>>, Null)]
    /\ UNCHANGED <<connVars, serverVars>>

SpecParam == ParamInit /\ [][CallDecodeParam]_vars

(***************************************************************************)
(* C22: for every payload that does not contain '&', decoding a standard   *)
(* form encoding of it with strdupDecodeGETorPOSTParam returns the         *)
(* payload.                                                                *)
(***************************************************************************)
DecodeParamReturned ==
    call.fn = "strdupDecodeGETorPOSTParam" /\ call.pc = "returned"

C22_DecodeInvertsEncode ==
    DecodeParamReturned => call.result = <<call.arg.payload>>

\* the same for a payload without the byte 0
C22_DecodeInvertsEncodeOfCString ==
    (DecodeParamReturned /\ \A k \in 1..Len(call.arg.payload) : call.arg.payload[k] # NUL)
        => call.result = <<call.arg.payload>>

(***************************************************************************)
(* C23: a pass of the parser that begins in state Done ends in state Done  *)
(* and changes nothing in the Request other than warnings.bodyTruncated,   *)
(* which it may set: method, path, version, pathDecoded, the headers and   *)
(* their count, the pool and its offset, the body and the other warnings   *)
(* stay as they were.                                                      *)
(***************************************************************************)
OnlyBodyTruncatedChanges(p) ==
    /\ p.after = [p.before EXCEPT
                    !.warnings.bodyTruncated = p.after.warnings.bodyTruncated]
    /\ p.before.warnings.bodyTruncated => p.after.warnings.bodyTruncated

C23_DoneIsFinal ==
    LET trace == ParseTrace
    IN  \A k \in 1..Len(trace) :
            trace[k].before.state = "Done" =>
                /\ trace[k].after.state = "Done"
                /\ OnlyBodyTruncatedChanges(trace[k])

\* two bytes arrived after Done on a request with a header and a body: the
\* first set the flag, the second changed nothing
C23_Witness ==
    /\ Len(ParseTrace) >= 2
    /\ LET last == ParseTrace[Len(ParseTrace)]
           previous == ParseTrace[Len(ParseTrace) - 1]
       IN  /\ previous.before.state = "Done"
           /\ ~previous.before.warnings.bodyTruncated
           /\ previous.after.warnings.bodyTruncated
           /\ last.after = last.before
           /\ last.before.headersCount = 1
           /\ last.before.body.length >= 1

(***************************************************************************)
(* The first header line of the bytes fed so far: its name, the number of  *)
(* spaces that follow the colon, and the value bytes after those spaces.   *)
(***************************************************************************)
RECURSIVE LeadingSpaces(_)
LeadingSpaces(s) == IF s = <<>> \/ s[1] # SP THEN 0 ELSE 1 + LeadingSpaces(Tail(s))

Spaces(n) == [k \in 1..n |-> SP]

FirstHeaderLine ==
    LET afterCRLF == Rest(Rest(AfterVersion))
        name == UpTo(afterCRLF, COLON)
        afterColon == Rest(FromDelimiter(afterCRLF, COLON))
        raw == UpTo(afterColon, CR)
        k == LeadingSpaces(raw)
    IN  [complete |-> /\ Len(AfterVersion) >= 2
                      /\ \A j \in 1..Len(name) : name[j] # CR
                      /\ FromDelimiter(afterCRLF, COLON) # <<>>
                      /\ FromDelimiter(afterColon, CR) # <<>>,
         spaces |-> k,
         value |-> SubSeq(raw, k + 1, Len(raw))]

SpacedHeaderLineStored ==
    /\ FirstHeaderLine.complete
    /\ FirstHeaderLine.spaces >= 1
    /\ FirstHeaderLine.value # <<>>
    /\ request.fault = "none"
    /\ ~request.warnings.headersStringPoolExhausted

ProcessedAgainAsHeaderName(trace, k) ==
    /\ k < Len(trace)
    /\ trace[k + 1].index = trace[k].index
    /\ trace[k + 1].before.state = "HeaderName"

C25_LoneCRReplaysNextByte ==
    LET trace == ParseTrace
    IN  \A k \in 1..Len(trace) :
            (trace[k].before.state = "CR" /\ trace[k].byte # LF) =>
                ProcessedAgainAsHeaderName(trace, k)

\* what the code replays is the byte other than CR that follows CR LF; the
\* byte that follows a lone CR, or CR LF CR, only changes the state
C25_ReplayAfterCRLF ==
    LET trace == ParseTrace
    IN  \A k \in 1..Len(trace) :
            /\ (trace[k].before.state = "CRLF" /\ trace[k].byte # CR) =>
                  ProcessedAgainAsHeaderName(trace, k)
            /\ (trace[k].before.state \in {"CR", "CRLFCR"} /\ trace[k].byte # LF) =>
                  /\ trace[k].after = [trace[k].before EXCEPT !.state = "HeaderName"]
                  /\ k < Len(trace) => trace[k + 1].index = trace[k].index + 1

(***************************************************************************)
(* C26: header pool exhaustion is soft.  In every pass of the parser no    *)
(* byte is written outside headersStringPool or through a NULL pool        *)
(* string, headersStringPoolOffset stays below REQUEST_HEADERS_MAX_MEMORY, *)
(* a header byte that is not stored because the pool is full sets          *)
(* headersStringPoolExhausted, and the LF that completes CR LF CR LF ends  *)
(* the header block without a fault (state Done, or Body when a            *)
(* Content-Length was found).                                              *)
(***************************************************************************)
\* a pass whose byte belongs to the name or the value of a header that has a
\* slot: "name", "value", or "none"
PoolField(p) ==
    IF p.before.headersCount >= REQUEST_MAX_HEADERS THEN "none"
    ELSE IF p.before.state = "HeaderName" /\ p.byte \notin {COLON, CR} THEN "name"
    ELSE IF p.before.state = "HeaderValue" /\ p.byte # CR /\ ~SkipsSpace(p.before, p.byte)
    THEN "value"
    ELSE "none"

\* the byte of the pass was put at the end of the pool string f, inside the pool
StoredInPool(p, f) ==
    LET ps == p.after.headers[p.before.headersCount][f]
    IN  /\ ps.contents # NullPtr
        /\ ps.length = p.before.headers[p.before.headersCount][f].length + 1
        /\ ps.contents + ps.length <= REQUEST_HEADERS_MAX_MEMORY
        /\ p.after.headersStringPool[ps.contents + ps.length] = p.byte
        /\ p.after.headersStringPoolOffset <= REQUEST_HEADERS_MAX_MEMORY - 1
        /\ p.after.headersStringPool[p.after.headersStringPoolOffset + 1] = NUL

\* the byte of the pass was stored nowhere and the warning is set
DroppedFromPool(p, f) ==
    /\ p.after.headersStringPool = p.before.headersStringPool
    /\ p.after.headers[p.before.headersCount][f].length =
           p.before.headers[p.before.headersCount][f].length
    /\ p.after.warnings.headersStringPoolExhausted

PoolFaults == {"write through NULL pool string", "write past headersStringPool"}

PoolPassIsSafe(p) ==
    /\ p.after.fault \notin PoolFaults
    /\ p.after.headersStringPoolOffset < REQUEST_HEADERS_MAX_MEMORY
    /\ PoolField(p) # "none" =>
           StoredInPool(p, PoolField(p)) \/ DroppedFromPool(p, PoolField(p))

HeaderBlockEnds(p) ==
    (p.before.state = "CRLFCR" /\ p.byte = LF) =>
        /\ p.after.fault = "none"
        /\ p.after.state \in {"Done", "Body"}

C26_PoolExhaustionIsSoft ==
    LET trace == ParseTrace
    IN  \A k \in 1..Len(trace) : PoolPassIsSafe(trace[k]) /\ HeaderBlockEnds(trace[k])

\* what holds: every pool write is inside the pool and a byte that does not
\* fit is dropped with the warning; the end of the header block is left out
C26_PoolWritesStayInside ==
    LET trace == ParseTrace
    IN  \A k \in 1..Len(trace) : PoolPassIsSafe(trace[k])

\* a name and a value were both cut by a full pool and the request is Done
C26_ExhaustedAndDone ==
    /\ request.warnings.headersStringPoolExhausted
    /\ request.state = "Done"
    /\ request.fault = "none"

(***************************************************************************)
(* C27: a pass of the parser leaves the state as it is or moves it along   *)
(* one of the edges below; Method, Path and Version are not entered again  *)
(* once left, Body is entered only from CRLFCR, and Done is never left.    *)
(***************************************************************************)
StateEdges ==
    { <<"Method", "Path">>, <<"Path", "Version">>, <<"Version", "CR">>,
      <<"HeaderName", "HeaderValue">>, <<"HeaderName", "CR">>,
      <<"HeaderValue", "CR">>, <<"CR", "CRLF">>, <<"CR", "HeaderName">>,
      <<"CRLF", "CRLFCR">>, <<"CRLF", "HeaderName">>,
      <<"CRLFCR", "HeaderName">>, <<"CRLFCR", "Body">>, <<"CRLFCR", "Done">>,
      <<"Body", "Done">> }

AlongAnEdge(p) ==
    p.after.state = p.before.state \/ <<p.before.state, p.after.state>> \in StateEdges

\* no pass after pass k begins or ends in state s
NotEnteredAfter(trace, k, s) ==
    \A j \in (k + 1)..Len(trace) : trace[j].before.state # s /\ trace[j].after.state # s

C27_StateEdges ==
    LET trace == ParseTrace
    IN  \A k \in 1..Len(trace) :
            LET p == trace[k]
            IN  /\ AlongAnEdge(p)
                /\ (p.before.state \in {"Method", "Path", "Version"}
                      /\ p.after.state # p.before.state) =>
                       NotEnteredAfter(trace, k, p.before.state)
                /\ (p.after.state = "Body" /\ p.before.state # "Body") =>
                       p.before.state = "CRLFCR"
                /\ p.before.state = "Done" => p.after.state = "Done"

\* a request went from CRLFCR to Body and from Body to Done, and a byte after
\* that was parsed in state Done
C27_Witness ==
    LET trace == ParseTrace
    IN  /\ \E k \in 1..Len(trace) :
               trace[k].before.state = "CRLFCR" /\ trace[k].after.state = "Body"
        /\ \E k \in 1..Len(trace) :
               trace[k].before.state = "Body" /\ trace[k].after.state = "Done"
        /\ \E k \in 1..Len(trace) :
               trace[k].before.state = "CR" /\ trace[k].after.state = "CRLF"
        /\ \E k \in 1..Len(trace) : trace[k].before.state = "Done"

(***************************************************************************)
(* C28: in sendResponseFile a read or a send that fails aborts the         *)
(* transfer: nothing more of the response goes to the socket after it.     *)
(* The file is closed on every exit path.  An error response is sent only  *)
(* when nothing of the real response was written to the socket before it.  *)
(***************************************************************************)
NothingOfResponseAfterFailure ==
    conn.failedAt >= 0 =>
        \A k \in (conn.failedAt + 1)..Len(conn.sent) : conn.sent[k].of # "response"

FileClosedOnExit ==
    /\ conn.fileCloses <= 1
    /\ conn.fileOpen =>
           /\ conn.pc \in {"fileHeader", "fileChunk", "fileExit"}
           /\ conn.fileCloses = 0

ErrorPageOnlyFirst ==
    \A k \in 1..Len(conn.sent) :
        conn.sent[k].of = "error" =>
            \A j \in 1..(k - 1) : conn.sent[j].of = "error"

C28_FileSendFailureHandling ==
    /\ NothingOfResponseAfterFailure
    /\ FileClosedOnExit
    /\ ErrorPageOnlyFirst

\* what holds: a send that fails aborts the transfer, the file is closed on
\* every exit path and an error page is only ever the first thing sent; a
\* read that fails is not noticed
C28_SendFailureAborts ==
    /\ conn.readFailures = 0 => NothingOfResponseAfterFailure
    /\ FileClosedOnExit
    /\ ErrorPageOnlyFirst

\* the send of a file chunk failed after the header and a chunk had gone
\* out; the file was closed and no error page followed
C28_ChunkSendFailed ==
    /\ conn.pc = "finished"
    /\ conn.readFailures = 0
    /\ conn.failedAt >= 2
    /\ conn.fileCloses = 1
    /\ conn.result = 1

\* the file could not be measured and the error page went out
C28_ErrorPageSent ==
    /\ conn.pc = "finished"
    /\ conn.fileCloses = 1
    /\ Len(conn.sent) = 2
    /\ conn.sent[2].of = "error"

(***************************************************************************)
(* URLDecode called by itself, in both modes, on every string of up to     *)
(* MaxEncodedLength characters drawn from '&', '%', '+', 'a', '4' and '1', *)
(* into buffers of several sizes.                                          *)
(***************************************************************************)
MaxEncodedLength == 4

EncodedBytes == {AMPERSAND, PERCENT, PLUS, 97, 52, 49}

DecodeCapacities == {1, 3, MaxEncodedLength + 1}

DecodeInit ==
    /\ stream = <<>>
    /\ pos = 0
    /\ request = ZeroRequest
    /\ boundaryReplay = FALSE
    /\ conn = ConnStart
    /\ ServerStart
    /\ \E encoded \in SequencesUpTo(EncodedBytes, MaxEncodedLength) :
          \E decodedCapacity \in DecodeCapacities, type \in {"Parameter", "WholeURL"} :
             call = [fn |-> "URLDecode",
                     arg |-> [encoded |-> encoded, decodedCapacity |-> decodedCapacity,
                              type |-> type],
                     pc |-> "called", result |-> <<>>]

CallURLDecode ==
    /\ call.fn = "URLDecode"
    /\ call.pc = "called"
    /\ call' = [call EXCEPT
                  !.pc = "returned",
                  !.result = URLDecode(call.arg.encoded, call.arg.decodedCapacity,
                                       call.arg.type)]
    /\ UNCHANGED <<connVars, serverVars>>

SpecDecode == DecodeInit /\ [][CallURLDecode]_vars

\* the characters of s before its first '&' (all of s when it has none)
RECURSIVE BeforeAmpersand(_)
BeforeAmpersand(s) ==
    IF s = <<>> \/ s[1] = AMPERSAND THEN <<>>
    ELSE <<s[1]>> \o BeforeAmpersand(Tail(s))

\* s with 'z' in the place of every '&'
AmpersandAsZ(s) == [k \in 1..Len(s) |-> IF s[k] = AMPERSAND THEN 122 ELSE s[k]]

DecodeReturned == call.fn = "URLDecode" /\ call.pc = "returned"

(***************************************************************************)
(* C31: in parameter mode URLDecode stops at the first '&': what it leaves *)
(* in decoded is the decoding of the characters before that '&', whatever  *)
(* follows it.  In whole-URL mode '&' is copied through like an ordinary   *)
(* character: the result is that for the string with 'z' in place of each  *)
(* '&', with '&' where that has 'z'.                                       *)
(***************************************************************************)
C31_ParameterStopsAtAmpersand ==
    DecodeReturned =>
        /\ call.arg.type = "Parameter" =>
               call.result = URLDecodeLoop(BeforeAmpersand(call.arg.encoded), <<>>,
                                           call.arg.decodedCapacity, "WholeURL",
                                           "Normal", NUL)
        /\ call.arg.type = "WholeURL" =>
               AmpersandAsZ(call.result) =
                   URLDecodeLoop(AmpersandAsZ(call.arg.encoded), <<>>,
                                 call.arg.decodedCapacity, "WholeURL", "Normal", NUL)

\* "a&a" and one more character, decoded as a parameter: the result is "a"
C31_Witness ==
    /\ DecodeReturned
    /\ call.arg.type = "Parameter"
    /\ Len(call.arg.encoded) = MaxEncodedLength
    /\ call.arg.encoded[1] = 97
    /\ call.arg.encoded[2] = AMPERSAND
    /\ call.arg.encoded[3] = 97
    /\ call.result = <<97>>

(***************************************************************************)
(* C32: the request body stays inside its storage.  In every pass of the   *)
(* parser body.length <= body.capacity before and after; a pass in state   *)
(* Body finds body storage allocated and body.length < body.capacity, and  *)
(* writes its byte at index body.length, below the allocated size, for     *)
(* every declared Content-Length, 0 and negative values included.          *)
(***************************************************************************)
BodyFaults == {"write through NULL body", "write past the body allocation"}

BodyWithinCapacity(p) ==
    /\ p.before.body.length <= p.before.body.capacity
    /\ p.after.body.length <= p.after.body.capacity
    /\ p.after.fault \notin BodyFaults

BodyByteStored(p) ==
    /\ p.before.body.allocated
    /\ p.before.body.length < p.before.body.capacity
    /\ p.before.body.length < Len(p.before.body.contents)
    /\ p.after.body.contents =
           [p.before.body.contents EXCEPT ![p.before.body.length + 1] = p.byte]
    /\ p.after.body.length = p.before.body.length + 1

C32_BodyBound ==
    LET trace == ParseTrace
    IN  \A k \in 1..Len(trace) :
            /\ BodyWithinCapacity(trace[k])
            /\ trace[k].before.state = "Body" => BodyByteStored(trace[k])

\* what holds: the same for a body whose capacity is at least 1
C32_BodyBoundOfPositiveLength ==
    LET trace == ParseTrace
    IN  \A k \in 1..Len(trace) :
            /\ trace[k].before.body.length <= trace[k].before.body.capacity
            /\ trace[k].after.body.length <= trace[k].after.body.capacity
            /\ (trace[k].before.state = "Body" /\ trace[k].before.body.capacity >= 1) =>
                   BodyByteStored(trace[k]) /\ trace[k].after.fault = "none"

\* a body of REQUEST_MAX_BODY_LENGTH bytes was stored and the request is Done
C32_FullBodyStored ==
    /\ request.state = "Done"
    /\ request.body.allocated
    /\ request.body.length = REQUEST_MAX_BODY_LENGTH
    /\ request.body.capacity = REQUEST_MAX_BODY_LENGTH

(***************************************************************************)
(* C33: every committed header (index below headersCount) has a name and a *)
(* value that are not NULL and point inside headersStringPool, for every   *)
(* input, a header line that begins with ':' included.                     *)
(***************************************************************************)
InsidePool(ps) ==
    /\ ps.contents # NullPtr
    /\ ps.contents >= 0
    /\ ps.contents + ps.length < REQUEST_HEADERS_MAX_MEMORY

C33_CommittedHeadersHaveNameAndValue ==
    \A h \in 0..(request.headersCount - 1) :
        InsidePool(request.headers[h].name) /\ InsidePool(request.headers[h].value)

\* what holds: the value of a committed header is inside the pool, and so is
\* its name unless the name is NULL
C33_CommittedHeadersHaveValue ==
    \A h \in 0..(request.headersCount - 1) :
        /\ InsidePool(request.headers[h].value)
        /\ request.headers[h].value.length > 0
        /\ request.headers[h].name.contents # NullPtr => InsidePool(request.headers[h].name)

\* the header of the line ':v' is committed with its value and a NULL name
C33_CommittedWithoutName ==
    /\ request.headersCount = 1
    /\ request.headers[0].name.contents = NullPtr
    /\ HeaderValueStr(request, 0) = <<118>>

(***************************************************************************)
(* C34: the name of a committed header is made of the name bytes of the    *)
(* header line that committed it, and of nothing from an earlier line that *)
(* was not committed, as long as the pool is not exhausted.  The line of   *)
(* a pass begins after the last earlier pass that began outside            *)
(* HeaderName and HeaderValue; its name bytes are the bytes other than     *)
(* ':' that its passes met in state HeaderName.                            *)
(***************************************************************************)
InHeaderLine(p) == p.before.state \in {"HeaderName", "HeaderValue"}

\* the index of the first pass of the header line that pass k belongs to
RECURSIVE LineStart(_, _)
LineStart(trace, k) ==
    IF k = 1 \/ ~InHeaderLine(trace[k - 1]) THEN k ELSE LineStart(trace, k - 1)

RECURSIVE NameBytes(_, _, _)
NameBytes(trace, from, to) ==
    IF from > to THEN <<>>
    ELSE (IF trace[from].before.state = "HeaderName" /\ trace[from].byte # COLON
          THEN <<trace[from].byte>> ELSE <<>>)
         \o NameBytes(trace, from + 1, to)

\* the name a committed header has: empty for a NULL name
CommittedName(r, h) ==
    IF r.headers[h].name.contents = NullPtr THEN <<>> ELSE HeaderNameStr(r, h)

C34_NameIsOfCommittingLine ==
    LET trace == ParseTrace
    IN  \A k \in 1..Len(trace) :
            (Commits(trace[k]) /\ ~trace[k].after.warnings.headersStringPoolExhausted) =>
                CommittedName(trace[k].after, trace[k].before.headersCount) =
                    NameBytes(trace, LineStart(trace, k), k)

\* an earlier line that was not committed: a pass before the line of pass k
\* that stored a name byte or met a colon in the same header slot
FollowsUncommittedLine(trace, k) ==
    \E j \in 1..(LineStart(trace, k) - 1) :
        /\ InHeaderLine(trace[j])
        /\ trace[j].before.headersCount = trace[k].before.headersCount

\* what holds: the same for a header line that no uncommitted header line
\* came before
C34_NameOfLineAfterCommittedLines ==
    LET trace == ParseTrace
    IN  \A k \in 1..Len(trace) :
            (/\ Commits(trace[k])
             /\ ~trace[k].after.warnings.headersStringPoolExhausted
             /\ ~FollowsUncommittedLine(trace, k)) =>
                CommittedName(trace[k].after, trace[k].before.headersCount) =
                    NameBytes(trace, LineStart(trace, k), k)

\* 'a' without a colon and then 'a:b': the committed name is "aa"
C34_NameCarriesEarlierLine ==
    /\ request.headersCount = 1
    /\ request.fault = "none"
    /\ HeaderNameStr(request, 0) = <<97, 97>>
    /\ HeaderValueStr(request, 0) = <<98>>

(***************************************************************************)
(* C35: when threads call serverStop concurrently, each of them returns    *)
(* once the accept loop has set stopped: a call that is under way while    *)
(* stopped is true eventually returns, so no caller stays blocked on       *)
(* stoppedCond.                                                            *)
(***************************************************************************)
StopUnderWay(s) == stopThreads[s].pc \notin {"idle", "returned"}

C35_ConcurrentStopsReturn ==
    \A s \in Stoppers :
        (server.stopped /\ StopUnderWay(s)) ~> (stopThreads[s].pc = "returned")

\* what holds: a call that is not inside pthread_cond_wait when stopped is
\* true returns; of the callers that wait, pthread_cond_signal wakes one
C35_StopOutsideWaitReturns ==
    \A s \in Stoppers :
        (server.stopped /\ StopUnderWay(s) /\ stopThreads[s].pc # "waitStopped")
            ~> (stopThreads[s].pc = "returned")

\* stopped is set, the accept thread has returned, one caller has returned
\* and the other is still inside pthread_cond_wait
C35_WaiterLeftBehind ==
    /\ server.stopped
    /\ acceptThread.pc = "returned"
    /\ stopThreads["A"].pc = "returned"
    /\ stopThreads["A"].waits = 1
    /\ stopThreads["B"].pc = "waitStopped"

(***************************************************************************)
(* C36: with one call of serverStop in the run, whatever way it            *)
(* interleaves with the accept loop, the listening descriptor is closed at *)
(* most once, close is never called on a descriptor that is already        *)
(* closed, and never on one the server did not open (descriptor 0, which   *)
(* the process had open before the server started, stays open).            *)
(***************************************************************************)
OneStopCall == stopThreads["A"].calls + stopThreads["B"].calls <= 1

C36_ListenerClosedOnce ==
    OneStopCall =>
        /\ kernel.listenerCloses <= 1
        /\ kernel.closesOfClosed = 0
        /\ 0 \in kernel.open

\* what holds: when the stop call closes the descriptor while the accept
\* thread is blocked in accept, accept fails with EBADF and the cleanup
\* leaves the descriptor alone
C36_ClosedOnceWhenAcceptFailsWithEBADF ==
    (OneStopCall /\ acceptThread.errno = "EBADF") =>
        /\ kernel.listenerCloses <= 1
        /\ kernel.closesOfClosed = 0
        /\ 0 \in kernel.open

\* the stop call came between an accept that returned a connection and the
\* loop test: both serverStop and the cleanup closed the descriptor
C36_ClosedTwice ==
    /\ OneStopCall
    /\ acceptThread.pc = "returned"
    /\ acceptThread.nextConnection = 2
    /\ kernel.listenerCloses = 2
    /\ kernel.closesOfClosed = 1

\* the stop call came before acceptConnectionsUntilStopped had made the
\* socket: serverStop closed descriptor 0
C36_ClosedStandardInput ==
    /\ OneStopCall
    /\ server.initialized
    /\ 0 \notin kernel.open

(***************************************************************************)
(* C37: counters.activeConnections is never negative and equals the number *)
(* of connection threads that are between their start and their teardown,  *)
(* for either setting of OptionIncludeStatusPageAndCounters; a thread that *)
(* incremented it decrements it once, and no other thread does.            *)
(***************************************************************************)
InService == {i \in Connections : units[i].pc = "serving"}

C37_ActiveConnectionsCounter ==
    /\ counters.activeConnections >= 0
    /\ counters.activeConnections = Cardinality(InService)

\* what holds: the same while every thread that started found the option set
C37_CounterWhenOptionIsSet ==
    (\A i \in Connections :
        units[i].pc \notin {"unused", "notCreated", "started"} => units[i].counted)
    => /\ counters.activeConnections >= 0
       /\ counters.activeConnections = Cardinality(InService)

\* with the option set: one thread is being served, the other is finished
C37_OneOfTwoInService ==
    /\ counters.activeConnections = 1
    /\ \A i \in Connections : units[i].pc \in {"serving", "finished"} /\ units[i].counted

\* with the option off: two threads are through and the counter is at -2
C37_CounterBelowZero ==
    /\ counters.activeConnections = 0 - MaxConnections
    /\ \A i \in Connections : units[i].pc = "finished" /\ ~units[i].counted

(***************************************************************************)
(* C38: every Response a construction helper returns can be transmitted:   *)
(* its body has length > 0 or its file name is set, so sendResponse does   *)
(* not come to its branch for neither, for every argument string, the      *)
(* empty string included.                                                  *)
(***************************************************************************)
\* body.length of a Response of the helpers: the body is empty, one text, or
\* a format with one %s and its argument
BodyLengthOf(r) ==
    IF r.body = <<>> THEN 0
    ELSE IF Len(r.body) = 1 THEN Len(r.body[1][1])
    ELSE Len(r.body[1]) - Len("%s") + Len(r.body[2][1])

\* what sendResponse does with the Response
DispatchOf(r) ==
    sendResponse([bodyLength |-> BodyLengthOf(r), hasFilename |-> r.filenameToSend # Null])

\* a helper returned a Response that it built from its argument: one of the
\* HTML, JSON and error helpers, or responseAllocWithFile
HelperReturned ==
    /\ call.pc = "returned"
    /\ \/ call.fn \in StatusHelpers \cup ErrorHelpers
       \/ /\ call.fn = "responseAllocServeFileFromRequestPath"
          /\ call.result.response.filenameToSend # Null

HelperResponse ==
    IF call.fn = "responseAllocServeFileFromRequestPath"
    THEN call.result.response ELSE call.result

C38_HelperResponsesAreTransmissible ==
    HelperReturned => DispatchOf(HelperResponse) # "assert"

\* what holds: the same for the error helpers and responseAllocWithFile, and
\* for the HTML and JSON helpers when their text is not empty
C38_NonEmptyTextIsTransmissible ==
    (HelperReturned /\ (call.fn \in StatusHelpers => call.arg.text # <<"">>))
        => DispatchOf(HelperResponse) # "assert"

\* responseAllocHTMLWithStatus("") returned a Response with neither body nor file
C38_EmptyHTMLResponse ==
    /\ call.pc = "returned"
    /\ call.fn = "responseAllocHTMLWithStatus"
    /\ call.arg.text = <<"">>
    /\ BodyLengthOf(call.result) = 0
    /\ call.result.filenameToSend = Null

(***************************************************************************)
(* C39: the Request the handler is given, its warnings included, does not  *)
(* depend on how recv split the client's bytes into chunks: it is the      *)
(* Request as it was when the parser first reached Done, which is what the *)
(* handler is given when every byte arrives in a chunk of its own.         *)
(***************************************************************************)
\* the Request after the first pass that ended in state Done
RECURSIVE FirstDone(_, _)
FirstDone(trace, k) ==
    IF k > Len(trace) THEN ZeroRequest
    ELSE IF trace[k].after.state = "Done" THEN trace[k].after
    ELSE FirstDone(trace, k + 1)

AtHandlerCall == conn.pc = "respond" /\ conn.foundRequest

C39_RequestIndependentOfChunks ==
    AtHandlerCall => request = FirstDone(ParseTrace, 1)

\* what holds: apart from warnings.bodyTruncated the Request is the same
\* however the bytes were split
C39_RequestButBodyTruncatedIndependent ==
    AtHandlerCall =>
        LET atDone == FirstDone(ParseTrace, 1)
        IN  /\ [request EXCEPT !.warnings.bodyTruncated = FALSE] =
                   [atDone EXCEPT !.warnings.bodyTruncated = FALSE]
            /\ request.warnings.bodyTruncated => request.body.allocated

\* the byte after the body came in the same chunk as the body: the handler
\* is given a Request with bodyTruncated set
C39_TruncatedBySameChunk ==
    /\ AtHandlerCall
    /\ request.warnings.bodyTruncated
    /\ ~FirstDone(ParseTrace, 1).warnings.bodyTruncated

(***************************************************************************)
(* C40: when a connection's unit has ended, whichever way it went, its     *)
(* socket has been closed once, the Connection with the request body freed *)
(* once, no file is left open, every Response made during the connection   *)
(* has been freed, the error Response made inside sendResponseFile         *)
(* included, and nothing was written to the socket when the handler        *)
(* returned NULL.                                                          *)
(***************************************************************************)
\* the Responses made during the connection: the handler's, and the
\* errorResponse of sendResponseFile
ResponsesAllocated(c) ==
    (IF c.response.isNull THEN 0 ELSE 1) + (IF c.errorResponse THEN 1 ELSE 0)

UnitEnded == conn.pc = "finished"

ConnectionReleased ==
    /\ conn.socketCloses = 1
    /\ conn.connectionFrees = 1
    /\ ~conn.fileOpen
    /\ conn.response.hasFilename => conn.fileCloses <= 1
    /\ conn.handlerCalls = 0 \/ conn.response.isNull => conn.sent = <<>>

C40_TeardownReleasesEverything ==
    UnitEnded => ConnectionReleased /\ conn.responseFrees = ResponsesAllocated(conn)

\* what holds: everything is released but the errorResponse of
\* sendResponseFile, which is sent and never freed
C40_TeardownReleasesAllButErrorResponse ==
    UnitEnded =>
        /\ ConnectionReleased
        /\ conn.responseFrees = IF conn.response.isNull THEN 0 ELSE 1

\* a unit that ended after sendResponseFile sent its error page
C40_ErrorResponseLeftAllocated ==
    /\ UnitEnded
    /\ conn.errorResponse
    /\ conn.responseFrees < ResponsesAllocated(conn)

====
